---- MODULE Spec2Model ----
(***************************************************************************)
(* A model of the request broker of claude_code_bridge: the per-session    *)
(* worker pool of laskd (lib/laskd_daemon.py) and the request lifecycle of *)
(* the Claude adapter (lib/askd/adapters/claude.py), and the transcript    *)
(* readers: the adapter's pane-log reader and CodexLogReader               *)
(* (lib/codex_comm.py), on the bytes of the files they read.               *)
(*                                                                         *)
(* Text is modelled as sequences of tokens: a line is a sequence of        *)
(* tokens, a token is a word the code looks for (a marker prefix, the      *)
(* instruction text), one character of a request id, a space, an ANSI      *)
(* escape sequence, or a word of ordinary text.  Substring search, regex   *)
(* matching, stripping and splitting are computed on these sequences the   *)
(* way the Python code computes them on characters.                        *)
(*                                                                         *)
(* Time is counted in ticks of 0.5 s (the loops' wait_step).               *)
(***************************************************************************)
EXTENDS Integers, Sequences, FiniteSets, TLC

(***************************************************************************)
(* Tokens                                                                  *)
(***************************************************************************)
REQ_ID_PREFIX == "CCB_REQ_ID:"
BEGIN_PREFIX == "CCB_BEGIN:"
DONE_PREFIX == "CCB_DONE:"
SP == " "
NL == "\n"
ESC == "ESC[0m"
IMPORTANT == "IMPORTANT:"
END_YOUR_REPLY == "End your reply with this exact final line"
BULLET == "(bullet)"
REPLY_TAG == "<reply>"
FENCE == "(code fence)"

\* _NOISE_PREFIXES, _NOISE_CONTAINS, _SPINNER_CHARS and the rule characters
\* of _is_noise_line, as far as the model's alphabet has them.
NoisePrefixes == {"(prompt-glyph)"}
NoiseContains == {"Bootstrapping", REQ_ID_PREFIX, IMPORTANT, END_YOUR_REPLY}
SpinnerChars == {"*"}
RuleChars == {"-", "*"}

\* Tokens that hold no letter or digit.
NonAlnum == {SP, NL, ESC, BULLET, FENCE, "(prompt-glyph)", "*", "-"}

EmptyLine == <<>>

(***************************************************************************)
(* String helpers                                                          *)
(***************************************************************************)
\* `sub in s` of Python, for a non-empty sub.
Contains(s, sub) ==
    \E i \in 0..(Len(s) - Len(sub)) : SubSeq(s, i + 1, i + Len(sub)) = sub

RECURSIVE LStrip(_)
LStrip(s) ==
    IF s # <<>> /\ Head(s) = SP THEN LStrip(Tail(s)) ELSE s

RECURSIVE RStrip(_)
RStrip(s) ==
    IF s # <<>> /\ s[Len(s)] = SP THEN RStrip(SubSeq(s, 1, Len(s) - 1)) ELSE s

Strip(s) == LStrip(RStrip(s))

\* f"{PREFIX} {req_id}"
Marker(prefix, id) == <<prefix, SP>> \o id

\* str.replace(marker, "\n" + marker + "\n"): left to right, not overlapping.
RECURSIVE ReplaceWithNewlines(_, _)
ReplaceWithNewlines(s, m) ==
    IF Len(s) < Len(m) THEN s
    ELSE IF SubSeq(s, 1, Len(m)) = m
         THEN <<NL>> \o m \o <<NL>> \o ReplaceWithNewlines(SubSeq(s, Len(m) + 1, Len(s)), m)
         ELSE <<Head(s)>> \o ReplaceWithNewlines(Tail(s), m)

\* str.split("\n")
RECURSIVE SplitNewlines(_)
SplitNewlines(s) ==
    IF \E i \in 1..Len(s) : s[i] = NL
    THEN LET i == CHOOSE k \in 1..Len(s) : s[k] = NL /\ \A j \in 1..(k - 1) : s[j] # NL
         IN  <<SubSeq(s, 1, i - 1)>> \o SplitNewlines(SubSeq(s, i + 1, Len(s)))
    ELSE <<s>>

(***************************************************************************)
(* Line classification of the Claude adapter                               *)
(***************************************************************************)
\* _done_line_re(req_id).match(line): ^\s*CCB_DONE:\s*<id>\s*$
DoneLineRe(id, line) ==
    LET t == Strip(line)
    IN  t # <<>> /\ Head(t) = DONE_PREFIX /\ LStrip(Tail(t)) = id

\* The marker patterns of the protocol for the other two prefixes:
\* ^\s*CCB_REQ_ID:\s*<id>\s*$ and ^\s*CCB_BEGIN:\s*<id>\s*$
MarkerLineRe(prefix, id, line) ==
    LET t == Strip(line)
    IN  t # <<>> /\ Head(t) = prefix /\ LStrip(Tail(t)) = id

\* _clean_line: ANSI sequences and carriage returns are removed.
CleanLine(line) == SelectSeq(line, LAMBDA t : t # ESC)

\* _split_inline_protocol
SplitInlineProtocol(line, id) ==
    LET marker_req == Marker(REQ_ID_PREFIX, id)
        marker_begin == Marker(BEGIN_PREFIX, id)
        marker_done == Marker(DONE_PREFIX, id)
        e1 == IF Contains(line, marker_req) THEN ReplaceWithNewlines(line, marker_req) ELSE line
        e2 == IF Contains(e1, marker_begin) THEN ReplaceWithNewlines(e1, marker_begin) ELSE e1
        e3 == IF Contains(e2, marker_done) THEN ReplaceWithNewlines(e2, marker_done) ELSE e2
    IN  IF line = <<>> THEN <<line>>
        ELSE IF ~Contains(line, marker_req) /\ ~Contains(line, marker_begin)
                /\ ~Contains(line, marker_done)
             THEN <<line>>
             ELSE SplitNewlines(e3)

\* _has_alnum
HasAlnum(line) == \E i \in 1..Len(line) : line[i] \notin NonAlnum

\* _is_noise_line
IsNoiseLine(line) ==
    LET stripped == Strip(line)
    IN  IF stripped = <<>> THEN FALSE
        ELSE \/ Head(stripped) \in NoisePrefixes
             \/ \E i \in 1..Len(stripped) : stripped[i] \in NoiseContains
             \/ Len(stripped) <= 2 /\ \A i \in 1..Len(stripped) : stripped[i] \in SpinnerChars
             \/ ~HasAlnum(stripped)
                /\ \A i \in 1..Len(stripped) : stripped[i] \in RuleChars \cup {SP}

AlwaysCountsAsResponse(line, id) == TRUE

\* _line_counts_as_response
LineCountsAsResponse(line, id) ==
    LET clean == CleanLine(line)
    IN  IF IsNoiseLine(line) THEN FALSE
        ELSE IF Strip(clean) = <<>> THEN FALSE
        ELSE IF Strip(clean) = <<REPLY_TAG>> THEN FALSE
        ELSE IF Contains(clean, Marker(REQ_ID_PREFIX, id)) THEN FALSE
        ELSE IF Contains(clean, Marker(BEGIN_PREFIX, id)) THEN FALSE
        ELSE IF Contains(clean, <<DONE_PREFIX>>) THEN FALSE
        ELSE IF Contains(clean, <<IMPORTANT>>) \/ Contains(clean, <<END_YOUR_REPLY>>) THEN FALSE
        ELSE IF Contains(line, <<BULLET>>) THEN TRUE
        ELSE HasAlnum(clean)

\* _strip_leading_marker
StripLeadingMarker(line) ==
    LET text == LStrip(line)
    IN  IF text # <<>> /\ Head(text) = BULLET THEN LStrip(Tail(text)) ELSE text

(***************************************************************************)
(* _extract_reply_from_pane                                                *)
(***************************************************************************)
max_consecutive_empty == 5
max_consecutive_noise == 3
max_lines == 200

RECURSIVE ExpandLines(_, _)
ExpandLines(ls, id) ==
    IF ls = <<>> THEN <<>>
    ELSE SplitInlineProtocol(CleanLine(Head(ls)), id) \o ExpandLines(Tail(ls), id)

\* Index of the last line holding "CCB_DONE: <id>", 0 when there is none.
LastDoneIndex(ls, id) ==
    LET hits == {i \in 1..Len(ls) : Contains(ls[i], Marker(DONE_PREFIX, id))}
    IN  IF hits = {} THEN 0 ELSE CHOOSE i \in hits : \A j \in hits : j <= i

\* The line that holds the last "CCB_DONE: <id>", NoLine when there is none.
LastDoneLine(ls, id) ==
    LET hits == {i \in 1..Len(ls) : Contains(CleanLine(ls[i]), Marker(DONE_PREFIX, id))}
    IN  IF hits = {} THEN <<"(no line)">> ELSE ls[CHOOSE i \in hits : \A j \in hits : j <= i]

\* The backward walk from line i: the lines kept (newest first) and whether
\* the walk ended on the BEGIN marker.
RECURSIVE WalkBack(_, _, _, _, _, _)
WalkBack(ls, i, out_rev, consecutive_empty, consecutive_noise, id) ==
    IF i = 0 THEN [out_rev |-> out_rev, begin_found |-> FALSE]
    ELSE
    LET raw == ls[i]
        stripped == Strip(raw)
        clean == CleanLine(raw)
        cleaned == StripLeadingMarker(raw)
        kept == IF Strip(cleaned) # <<>> THEN Append(out_rev, RStrip(cleaned)) ELSE out_rev
    IN  IF DoneLineRe(id, Strip(clean)) THEN [out_rev |-> out_rev, begin_found |-> FALSE]
        ELSE IF Contains(clean, Marker(REQ_ID_PREFIX, id))
             THEN [out_rev |-> out_rev, begin_found |-> FALSE]
        ELSE IF Contains(clean, Marker(BEGIN_PREFIX, id))
             THEN [out_rev |-> out_rev, begin_found |-> TRUE]
        ELSE IF Contains(clean, <<IMPORTANT>>) \/ Contains(clean, <<END_YOUR_REPLY>>)
             THEN [out_rev |-> out_rev, begin_found |-> FALSE]
        ELSE IF stripped = <<>>
             THEN IF consecutive_empty + 1 > max_consecutive_empty
                  THEN [out_rev |-> out_rev, begin_found |-> FALSE]
                  ELSE WalkBack(ls, i - 1,
                                IF out_rev # <<>> THEN Append(out_rev, EmptyLine) ELSE out_rev,
                                consecutive_empty + 1, 0, id)
        ELSE IF IsNoiseLine(raw) \/ Strip(clean) = <<REPLY_TAG>>
             THEN IF consecutive_noise + 1 >= max_consecutive_noise
                  THEN [out_rev |-> out_rev, begin_found |-> FALSE]
                  ELSE WalkBack(ls, i - 1, out_rev, 0, consecutive_noise + 1, id)
        ELSE IF Len(kept) >= max_lines
             THEN [out_rev |-> kept, begin_found |-> FALSE]
             ELSE WalkBack(ls, i - 1, kept, 0, 0, id)

Reverse(s) == [i \in 1..Len(s) |-> s[Len(s) + 1 - i]]

RECURSIVE TrimLeadingEmpty(_)
TrimLeadingEmpty(ls) ==
    IF ls # <<>> /\ Strip(Head(ls)) = <<>> THEN TrimLeadingEmpty(Tail(ls)) ELSE ls

TrimEmpty(ls) == Reverse(TrimLeadingEmpty(Reverse(TrimLeadingEmpty(ls))))

\* The reply is the sequence of its lines; the empty string is <<>>.
ExtractReplyFromPane(lines, id) ==
    LET ls == ExpandLines(lines, id)
        done_i == LastDoneIndex(ls, id)
        w == WalkBack(ls, done_i - 1, <<>>, 0, 0, id)
    IN  IF done_i = 0 THEN <<>>
        ELSE IF ~w.begin_found THEN <<>>
        ELSE TrimEmpty(Reverse(w.out_rev))

(***************************************************************************)
(* The request and its wrapped prompt                                      *)
(***************************************************************************)
\* The req_id of the request being handled, and ids of other requests: one
\* that extends it and one unrelated to it.
TaskReqId == <<"a">>
OtherIds == {<<"a", "x">>, <<"x">>}

\* The message of the request (its lines).  It asks for no reply shaping.
Message == << <<"say hi">> >>

\* wrap_claude_prompt(message, req_id), as the protocol lays the prompt out:
\* REQ_ID, BEGIN, the message, an empty line, the instruction, DONE.
WrapClaudePrompt(message, id) ==
    <<Marker(REQ_ID_PREFIX, id), Marker(BEGIN_PREFIX, id)>> \o message
        \o <<EmptyLine, <<IMPORTANT, SP, END_YOUR_REPLY>>, Marker(DONE_PREFIX, id)>>

\* _wants_text_fence / _fix_text_fence, the reply shaping a message may ask
\* for.
WantsTextFence(message) ==
    \E i \in 1..Len(message) :
        Contains(message[i], <<"text">>) /\ Contains(message[i], <<"code block">>)

FixTextFence(reply) ==
    IF \E i \in 1..Len(reply) : Contains(reply[i], <<FENCE>>) THEN reply
    ELSE IF TrimEmpty(reply) = <<>> THEN reply
    ELSE << <<FENCE, "text">> >> \o TrimEmpty(reply) \o << <<FENCE>> >>

\* str.lower() on the tokens of the alphabet that have capitals.
Lower(tok) ==
    CASE tok = "Release Notes" -> "release notes"
      [] tok = "Summary:" -> "summary:"
      [] OTHER -> tok

LowerLine(line) == [i \in 1..Len(line) |-> Lower(line[i])]

\* sub in text.lower(), for a text of several lines
TextHas(text, tok) == \E i \in 1..Len(text) : Contains(LowerLine(text[i]), <<tok>>)

WantsReleaseNotes(message) ==
    /\ TextHas(message, "release notes")
    /\ TextHas(message, "summary") /\ TextHas(message, "item")
    /\ TextHas(message, "risk") /\ TextHas(message, "action")

LooksLikeReleaseNotesReply(reply) ==
    /\ reply # <<>>
    /\ TextHas(reply, "release notes") /\ TextHas(reply, "summary:")

NumberTokens == <<"1.", "2.", "3.", "4.">>

\* _fix_release_notes, for replies without table rows, numbered items and
\* item:/risk:/action: fields, and with summaries of at most 20 words: the
\* heading, the summary line (f"{prefix}: {rest}" of the line split at its
\* colon), then the other lines numbered, the last one repeated up to four.
FixReleaseNotes(reply) ==
    LET stripped_all == [i \in 1..Len(reply) |-> Strip(reply[i])]
        stripped_lines == SelectSeq(stripped_all, LAMBDA ln : ln # <<>>)
        IsSummary(ln) == Lower(Head(ln)) = "summary:"
        IsTitle(ln) == LowerLine(ln) = <<"release notes">>
        idx == 1..Len(stripped_lines)
        found ==
            IF \E i \in idx : IsSummary(stripped_lines[i])
            THEN stripped_lines[CHOOSE i \in idx :
                     /\ IsSummary(stripped_lines[i])
                     /\ \A j \in 1..(i - 1) : ~IsSummary(stripped_lines[j])]
            ELSE IF \E i \in idx : ~IsTitle(stripped_lines[i])
            THEN <<"Summary:", SP>> \o
                 stripped_lines[CHOOSE i \in idx :
                     /\ ~IsTitle(stripped_lines[i])
                     /\ \A j \in 1..(i - 1) : IsTitle(stripped_lines[j])]
            ELSE <<"Summary:">>
        summary_line == RStrip(<<Head(found), SP>> \o Tail(found))
        candidates == SelectSeq(stripped_lines, LAMBDA ln : ~IsTitle(ln) /\ ~IsSummary(ln))
        n == IF Len(candidates) < 4 THEN Len(candidates) ELSE 4
        numbered ==
            IF n = 0 THEN <<>>
            ELSE [i \in 1..4 |->
                     <<NumberTokens[i], SP>> \o (IF i <= n THEN candidates[i] ELSE candidates[n])]
    IN  << <<"###", SP, "Release Notes">>, summary_line >> \o numbered

\* _postprocess_reply, for messages that ask for a text fence, for release
\* notes, or for nothing.
PostprocessReply(message, reply) ==
    LET fenced == IF WantsTextFence(message) THEN FixTextFence(reply) ELSE reply
    IN  IF WantsReleaseNotes(message) \/ LooksLikeReleaseNotesReply(fenced)
        THEN FixReleaseNotes(fenced)
        ELSE fenced

(***************************************************************************)
(* The pane-log state machine of _wait_for_response_pane                   *)
(***************************************************************************)
\* No line: the value of echo_src and done_src before any line acted.
NoLine == <<"(no line)">>

PaneLocalsBegun ==
    [anchor_seen |-> FALSE, prompt_echo_seen |-> FALSE, prompt_done_seen |-> FALSE,
     begin_seen |-> TRUE, recent_instruction |-> FALSE, response_seen |-> FALSE,
     done_seen |-> FALSE, brk |-> FALSE, echo_src |-> NoLine, done_src |-> NoLine]

\* The locals of _wait_for_response_pane.  brk is the break out of the
\* loop over one line's parts; echo_src and done_src record the log line
\* that was consumed as the prompt-echo DONE and the one that completed the
\* request.
PaneLocals ==
    [anchor_seen |-> FALSE, prompt_echo_seen |-> FALSE, prompt_done_seen |-> FALSE,
     begin_seen |-> FALSE, recent_instruction |-> FALSE, response_seen |-> FALSE,
     done_seen |-> FALSE, brk |-> FALSE, echo_src |-> NoLine, done_src |-> NoLine]

\* is_done of the loop body
IsDone(clean, id) ==
    DoneLineRe(id, Strip(clean)) \/ Contains(clean, Marker(DONE_PREFIX, id))

\* The body of the loop over the parts of one line.
ProcessPart(s, part, raw, id) ==
    LET clean == CleanLine(part)
        is_done == IsDone(clean, id)
        s1 == IF ~s.anchor_seen /\ Contains(clean, <<REQ_ID_PREFIX>>) /\ Contains(clean, id)
              THEN [s EXCEPT !.anchor_seen = TRUE, !.prompt_echo_seen = TRUE]
              ELSE s
        s2 == IF ~s1.prompt_done_seen
                 /\ (Contains(clean, <<IMPORTANT>>) \/ Contains(clean, <<END_YOUR_REPLY>>))
              THEN [s1 EXCEPT !.recent_instruction = TRUE]
              ELSE s1
        echo_over == ~s2.prompt_echo_seen \/ s2.prompt_done_seen
        s3 == IF s2.begin_seen /\ echo_over /\ LineCountsAsResponse(part, id)
              THEN [s2 EXCEPT !.response_seen = TRUE]
              ELSE s2
    IN  IF s2.prompt_echo_seen /\ ~s2.prompt_done_seen /\ is_done
        THEN [s2 EXCEPT !.prompt_done_seen = TRUE, !.recent_instruction = FALSE,
                        !.echo_src = raw]
        ELSE IF Contains(clean, Marker(BEGIN_PREFIX, id))
        THEN IF echo_over /\ (~s2.recent_instruction \/ s2.prompt_done_seen)
             THEN [s2 EXCEPT !.begin_seen = TRUE, !.recent_instruction = FALSE]
             ELSE s2
        ELSE IF is_done /\ s3.begin_seen /\ echo_over /\ s3.response_seen
        THEN [s3 EXCEPT !.done_seen = TRUE, !.brk = TRUE,
                        !.done_src = IF s3.done_seen THEN s3.done_src ELSE raw]
        ELSE s3

\* for part in _split_inline_protocol(...): ... break
RECURSIVE ProcessParts(_, _, _, _)
ProcessParts(s, parts, raw, id) ==
    IF parts = <<>> THEN s
    ELSE LET r == ProcessPart(s, Head(parts), raw, id)
         IN  IF r.brk THEN [r EXCEPT !.brk = FALSE]
             ELSE ProcessParts(r, Tail(parts), raw, id)

\* for i in range(start_idx, len(lines)): the break above leaves only the
\* inner loop, so the lines after the accepted DONE are processed too.
RECURSIVE ProcessLines(_, _, _)
ProcessLines(s, new_lines, id) ==
    IF new_lines = <<>> THEN s
    ELSE ProcessLines(
             ProcessParts(s, SplitInlineProtocol(CleanLine(Head(new_lines)), id),
                          Head(new_lines), id),
             Tail(new_lines), id)

\* _read_pane_log on a log of complete lines: the lines after the offset,
\* cleaned, and the empty string that bytes.split leaves after the last
\* newline (and that it returns alone when nothing was appended).
ReadPaneLog(file, offset) ==
    LET from == IF Len(file) < offset THEN 0 ELSE offset
        new == SubSeq(file, from + 1, Len(file))
    IN  [lines |-> [i \in 1..Len(new) |-> CleanLine(new[i])] \o <<EmptyLine>>,
         offset |-> Len(file)]

(***************************************************************************)
(* Structured transcript events (ClaudeLogReader) and DONE detection       *)
(***************************************************************************)
\* An event is (role, text); the text is the sequence of its lines.
Event(role, text) == [role |-> role, text |-> text]

\* "\n".join(chunks)
RECURSIVE JoinChunks(_)
JoinChunks(chunks) ==
    IF chunks = <<>> THEN <<>> ELSE Head(chunks) \o JoinChunks(Tail(chunks))

RECURSIVE DropTrailingBlank(_)
DropTrailingBlank(ls) ==
    IF ls # <<>> /\ Strip(ls[Len(ls)]) = <<>>
    THEN DropTrailingBlank(SubSeq(ls, 1, Len(ls) - 1))
    ELSE ls

\* is_done_text(text, req_id): the last non-blank line is the DONE line.
IsDoneText(text, id) ==
    LET t == DropTrailingBlank(text)
    IN  t # <<>> /\ DoneLineRe(id, t[Len(t)])

\* strip_done_text / extract_reply_for_req: the text without its trailing
\* DONE line and the whitespace around it.
StripDoneText(text, id) ==
    LET t == DropTrailingBlank(text)
    IN  IF t # <<>> /\ DoneLineRe(id, t[Len(t)])
        THEN DropTrailingBlank(SubSeq(t, 1, Len(t) - 1))
        ELSE t

\* The locals of the structured wait loop (_wait_for_response, and the loop
\* of laskd's _handle_task).
\* dropped, chunk_at and anchor_at are a record the code does not keep: the
\* places in the transcript of the assistant events the grace dropped, of
\* the events behind the chunks, and of the anchor when it was seen.
LogLocals(grace, collect) ==
    [chunks |-> <<>>, anchor_seen |-> FALSE, fallback_scan |-> FALSE,
     done_seen |-> FALSE, rebounded |-> FALSE,
     anchor_grace_deadline |-> grace, anchor_collect_grace |-> collect,
     dropped |-> {}, chunk_at |-> <<>>, anchor_at |-> 0]

\* The body of `for role, text in events`; ev.at is the event's place in
\* the transcript.
ProcessEvent(l, ev, id, t) ==
    IF ev.role = "user"
    THEN IF \E i \in 1..Len(ev.text) : Contains(ev.text[i], Marker(REQ_ID_PREFIX, id))
         THEN [l EXCEPT !.anchor_seen = TRUE,
                        !.anchor_at = IF l.anchor_seen THEN @ ELSE ev.at]
         ELSE l
    ELSE IF ev.role # "assistant" THEN l
    ELSE IF ~l.anchor_seen /\ t < l.anchor_collect_grace
    THEN [l EXCEPT !.dropped = @ \cup {ev.at}]
    ELSE LET chunks == Append(l.chunks, ev.text)
         IN  [l EXCEPT !.chunks = chunks,
                       !.chunk_at = Append(@, ev.at),
                       !.done_seen = IsDoneText(JoinChunks(chunks), id)]

\* for role, text in events: ... break
RECURSIVE ProcessEvents(_, _, _, _)
ProcessEvents(l, events, id, t) ==
    IF events = <<>> THEN l
    ELSE LET r == ProcessEvent(l, Head(events), id, t)
         IN  IF r.done_seen THEN r ELSE ProcessEvents(r, Tail(events), id, t)

(***************************************************************************)
(* Bounds and program constants                                            *)
(***************************************************************************)
MaxTime == 14           \* the clock stops here
MaxEvents == 2          \* transcript events written during a request
MaxPaneLines == 4       \* pane-log lines written after the echoed prompt
MaxIdlePolls == 0       \* polls of the pane log that find nothing new

\* In ticks of 0.5 s.
AnchorGraceTicks == 3   \* 1.5 s
CollectGraceTicks == 4  \* 2.0 s
PaneCheckTicks == 4     \* CCB_LASKD_PANE_CHECK_INTERVAL, 2.0 s
LogWindowTicks == 10    \* CCB_LASKD_LOG_FIRST_WINDOW, 5.0 s

\* deadline = None
None == -1

Min(a, b) == IF a <= b THEN a ELSE b

\* min(deadline, now + d) if deadline is set, else now + d
MinDeadline(dl, t) == IF dl = None THEN t ELSE Min(dl, t)

(***************************************************************************)
(* State of one request in its handler                                     *)
(***************************************************************************)
VARIABLES
    flavor,          \* "adapter": ClaudeAdapter.handle_task; "laskd": _SessionWorker._handle_task
    env,             \* what the handler finds: session, pane log, bound transcript
    timeout_s,       \* the request's timeout in ticks, -1 for a negative one
    pc,              \* "start", "log_wait", "pane_wait", "returned"
    now,             \* the clock
    deadline,        \* handle_task's deadline, None when timeout_s < 0
    wait_deadline,   \* the deadline of the structured wait (log_deadline)
    log_windowed,    \* handle_task's log_windowed
    pane_alive,      \* backend.is_alive(pane_id)
    last_pane_check, \* the loops' last_pane_check
    screen,          \* backend.get_text(pane_id, lines=15), as the marks it shows
    injected,        \* number of send_text calls
    transcript,      \* events written to the bound transcript since capture_state
    log_offset,      \* the structured reader's cursor into transcript
    ll,              \* locals of the structured wait loop
    pane_file,       \* lines appended to the pane log since _pane_log_state
    pane_offset,     \* the pane reader's cursor into pane_file
    lines,           \* _wait_for_response_pane's lines
    ps,              \* locals of _wait_for_response_pane
    idle_polls,      \* polls of the pane log that found nothing new
    result,          \* the result returned, NoResult before
    response         \* what laskd's _handle_request has answered, NoResponse before

\* The worker pool of laskd
VARIABLES
    descriptor,      \* the project's session descriptor, as load_project_session reads it
    workers,         \* the session keys that have a worker
    queue,           \* per session key, the tasks enqueued and not yet taken
    current,         \* per session key, the task its worker is handling, NoTask if none
    task_state,      \* per task: "new", "queued", "injected", "done"
    task_key,        \* per task, the session key it was enqueued under
    task_pane,       \* per task, the pane its prompt was injected into
    enqueued,        \* per session key, the tasks in the order they were enqueued
    started,         \* per session key, the tasks in the order the worker started them
    task_result      \* per task, task.result: NoTaskResult until the worker sets it

\* The transcript readers: the pane-log reader of the Claude adapter and
\* CodexLogReader, each with the file it reads and the writer of that file.
VARIABLES
    reader,          \* "pane": a cursor of _read_pane_log; "codex": a CodexLogReader; "none"
    files,           \* the files: path -> its bytes, Absent when there is no such file
    truncated,       \* the bound file has been cut below the cursor's offset
    pane_cursor,     \* the state dict of _read_pane_log: offset and carry
    pane_out,        \* the lines the polls of _read_pane_log have returned, in order
    appended,        \* the bytes appended to the pane log since _pane_log_state
    preferred_log,   \* CodexLogReader._preferred_log
    cursor,          \* the state dict the caller of CodexLogReader holds: log_path, offset
    rs,              \* the locals of _read_since while a call runs
    rnow,            \* the clock of CodexLogReader, in poll intervals (0.05 s)
    delivered,       \* the messages the calls of CodexLogReader have returned, in order
    wbuf,            \* the rest of the JSONL line the transcript's writer is writing
    nmsgs,           \* the number of messages the writer has begun
    torn             \* some JSONL line was written in more than one write

rdrVars == <<reader, files, truncated, pane_cursor, pane_out, appended, preferred_log,
             cursor, rs, rnow, delivered, wbuf, nmsgs, torn>>

\* The files the processes share: a session descriptor and its writers.
VARIABLES
    dfs,             \* the descriptor's directory: the inode each name links to, the inodes' bytes
    dwriters,        \* per writer of the descriptor: where it is, its open file, its contents
    dseen            \* what the last read of the descriptor file returned

\* A call of one of the functions checked on their own.
VARIABLES
    fn_call,         \* the function called and its arguments
    fn_ret           \* what it returned, NoRet before it has

\* The state file of the laskd daemons.
VARIABLES
    state_file,      \* the pid the state file records, NoPid when there is no state file
    daemons          \* per daemon: where it is, and the pid its cleanup read

\* PerSessionWorkerPool seen through get_or_create alone.
VARIABLES
    pool_workers,    \* self._workers: per session key the worker object, NoWorker without one
    thread_starts,   \* per worker object, how many times its start() was called
    goc_log          \* the get_or_create calls so far: the key given, the worker returned

\* SessionRegistry seen through one session key and its monitor thread.
VARIABLES
    mon_now,         \* time.time(), in seconds
    mon_last_run,    \* when _check_all_sessions last ran
    mon_entry        \* self._sessions[key], NoEntry without one

monVars == <<mon_now, mon_last_run, mon_entry>>

\* A request path from its cursors to its injection, and the files the
\* cursors are taken on.
VARIABLES
    inj,             \* the path taken, the steps done, the cursors captured, the send_text calls
    inj_log,         \* the bound transcript: per byte, whether the injected prompt caused it
    inj_pane         \* the pane log, likewise

injVars == <<inj, inj_log, inj_pane>>

\* One session worker of laskd, its queue and the RPC handlers that wait on
\* its tasks.
VARIABLES
    q_now,           \* time.time(), in ticks of 5 s
    q_tasks,         \* per task: where it is, its times, what its RPC handler did
    q_queue          \* the worker's queue

queueVars == <<q_now, q_tasks, q_queue>>
extVars == <<monVars, injVars, queueVars>>
descVars == <<dfs, dwriters, dseen>>
fnVars == <<fn_call, fn_ret>>
daemonVars == <<state_file, daemons>>
keyedVars == <<pool_workers, thread_starts, goc_log>>
auxVars == <<descVars, fnVars, daemonVars, keyedVars, extVars>>

poolVars == <<descriptor, workers, queue, current, task_state, task_key, task_pane,
              enqueued, started, task_result>>

reqVars == <<flavor, env, timeout_s, pc, now, deadline, wait_deadline, log_windowed,
             pane_alive, last_pane_check, screen, injected, transcript, log_offset, ll,
             pane_file, pane_offset, lines, ps, idle_polls, result>>

NoResult == [exit_code |-> -1, cause |-> "none"]

\* ProviderResult / LaskdResult.  Some fields are not in the code: cause
\* records the return statement taken, echo_src and done_src the pane lines
\* consumed as the prompt-echo DONE and accepted as DONE, anchor_src the
\* pane line that holds the DONE marker from which the reply extraction
\* walked backward, pane_read the number of pane-log lines read, notified
\* the completion notifications emitted for the request, as (req_id, reply).
Result(exit_code, reply, done_seen, anchor_seen, fallback_scan, cause) ==
    [exit_code |-> exit_code, reply |-> reply, req_id |-> TaskReqId,
     done_seen |-> done_seen, anchor_seen |-> anchor_seen,
     fallback_scan |-> fallback_scan, cause |-> cause, echo_src |-> NoLine,
     done_src |-> NoLine, anchor_src |-> NoLine, pane_read |-> 0, notified |-> <<>>]

Returned == pc = "returned"

\* What the screen's last 15 lines can show: the request id ("req"), the
\* interrupt notice ("int"), in reading order.
Screens ==
    {<<>>, <<"req">>, <<"int">>, <<"req", "int">>, <<"int", "req">>, <<"int", "req", "int">>}

\* str.find: position of the first occurrence, -1 when absent.
Find(text, mark) ==
    IF \E i \in 1..Len(text) : text[i] = mark
    THEN (CHOOSE i \in 1..Len(text) : text[i] = mark /\ \A j \in 1..(i - 1) : text[j] # mark) - 1
    ELSE -1

\* is_current of laskd's interrupt detection
InterruptIsCurrent(text) ==
    LET req_id_pos == Find(text, "req")
        interrupt_pos == Find(text, "int")
    IN  /\ interrupt_pos >= 0
        /\ \/ req_id_pos >= 0 /\ interrupt_pos > req_id_pos
           \/ req_id_pos < 0 /\ interrupt_pos >= 0

Envs == [session : {"ok", "none", "nopane", "nobackend"},
         has_pane_log : BOOLEAN, log_session : BOOLEAN]

Timeouts == {-1, 0, 6, 12}

\* The state in which a worker enters the handler of a request.
InitRequest ==
    /\ pc = "start"
    /\ now = 0
    /\ deadline = None
    /\ wait_deadline = None
    /\ log_windowed = FALSE
    /\ pane_alive = TRUE
    /\ last_pane_check = 0
    /\ screen = <<>>
    /\ injected = 0
    /\ transcript = <<>>
    /\ log_offset = 0
    /\ ll = LogLocals(0, 0)
    /\ pane_file = <<>>
    /\ pane_offset = 0
    /\ lines = <<>>
    /\ ps = PaneLocals
    /\ idle_polls = 0
    /\ result = NoResult

\* The value handle_task returns: the adapter applies _postprocess_reply to
\* the result of either wait and then _finalize_result, which emits the
\* completion notification; laskd returns the result as it is.
Finalize(r) ==
    IF flavor = "adapter"
    THEN LET reply == PostprocessReply(Message, r.reply)
         IN  [r EXCEPT !.reply = reply, !.notified = Append(@, <<r.req_id, reply>>)]
    ELSE r

SessionUsableOrNoBackend == env.session \in {"ok", "nobackend"}

\* The handler got past its three early returns: there is a session, its
\* pane and a terminal backend.
SessionUsable == env.session = "ok"

\* The three early returns of the handlers, before anything is injected.
EarlyReturn ==
    /\ pc = "start"
    /\ env.session # "ok"
    /\ result' = Result(1, << <<env.session>> >>, FALSE, FALSE, FALSE, env.session)
    /\ pc' = "returned"
    /\ UNCHANGED <<poolVars, rdrVars, auxVars, response, flavor, env, timeout_s, now, deadline, wait_deadline, log_windowed,
                   pane_alive, last_pane_check, screen, injected, transcript, log_offset,
                   ll, pane_file, pane_offset, lines, ps, idle_polls>>

\* handle_task up to the first wait: the deadline, the cursors, send_text,
\* and the choice of the wait: the structured wait, windowed when a pane log
\* and a bound transcript both exist, or the pane wait at once when there is
\* a pane log and no bound transcript.
Inject ==
    /\ pc = "start"
    /\ SessionUsable
    /\ LET dl == IF timeout_s < 0 THEN None ELSE now + timeout_s
           pane_log == flavor = "adapter" /\ env.has_pane_log
           windowed == pane_log /\ env.log_session /\ LogWindowTicks > 0
           wdl == IF windowed THEN MinDeadline(dl, now + LogWindowTicks) ELSE dl
       IN  /\ deadline' = dl
           /\ log_windowed' = windowed
           /\ wait_deadline' = wdl
           /\ IF pane_log /\ ~env.log_session
              THEN /\ pc' = "pane_wait"
                   /\ ll' = ll
              ELSE /\ pc' = "log_wait"
                   /\ ll' = LogLocals(MinDeadline(wdl, now + AnchorGraceTicks),
                                      MinDeadline(wdl, now + CollectGraceTicks))
    /\ injected' = injected + 1
    /\ last_pane_check' = now
    /\ UNCHANGED <<poolVars, rdrVars, auxVars, response, flavor, env, timeout_s, now, pane_alive, screen, transcript, log_offset,
                   pane_file, pane_offset, lines, ps, idle_polls, result>>

PaneCheckDue == now - last_pane_check >= PaneCheckTicks

LogDeadlinePassed == wait_deadline # None /\ now >= wait_deadline

\* The result the structured wait builds after its loop.
LogResult(l, cause) ==
    Result(IF l.done_seen THEN 0 ELSE 2, StripDoneText(JoinChunks(l.chunks), TaskReqId),
           l.done_seen, l.anchor_seen, l.fallback_scan, cause)

NoPaneFallback(r) == FALSE

\* handle_task after _wait_for_response has returned r: whether it falls
\* back to the pane log.
FallsBackToPane(r) ==
    /\ flavor = "adapter"
    /\ env.has_pane_log
    /\ ~(r.exit_code = 1 \/ r.done_seen \/ (deadline # None /\ now >= deadline))
    /\ log_windowed

\* The structured wait has returned r.  The structured reader and its
\* locals are not used again; ll.anchor_seen and ll.rebounded stay as a
\* record of whether the structured wait observed the anchor and whether
\* it rebound its reader, which the code does not keep.
AfterLogWait(r) ==
    /\ IF FallsBackToPane(r)
       THEN /\ pc' = "pane_wait"
            /\ last_pane_check' = now
            /\ result' = result
       ELSE /\ pc' = "returned"
            /\ last_pane_check' = last_pane_check
            /\ result' = Finalize(r)
    /\ transcript' = <<>>
    /\ log_offset' = 0
    /\ ll' = [LogLocals(0, 0) EXCEPT !.anchor_seen = r.anchor_seen,
                                     !.rebounded = ll.rebounded]

\* The structured loop finds its deadline passed.
LogDeadline ==
    /\ pc = "log_wait"
    /\ LogDeadlinePassed
    /\ AfterLogWait(LogResult(ll, "deadline"))
    /\ UNCHANGED <<poolVars, rdrVars, auxVars, response, flavor, env, timeout_s, now, deadline, wait_deadline, log_windowed,
                   pane_alive, screen, injected, pane_file, pane_offset, lines, ps,
                   idle_polls>>

\* The liveness probe of the structured loop finds the pane dead.
LogPaneDied ==
    /\ pc = "log_wait"
    /\ ~LogDeadlinePassed
    /\ PaneCheckDue
    /\ ~pane_alive
    /\ AfterLogWait(Result(1, << <<"pane died">> >>, FALSE, ll.anchor_seen,
                           ll.fallback_scan, "pane_died"))
    /\ UNCHANGED <<poolVars, rdrVars, auxVars, response, flavor, env, timeout_s, now, deadline, wait_deadline, log_windowed,
                   pane_alive, screen, injected, pane_file, pane_offset, lines, ps,
                   idle_polls>>

\* laskd only: after a live probe the screen shows a current interrupt.
LogInterruptSeen == flavor = "laskd" /\ PaneCheckDue /\ pane_alive /\ InterruptIsCurrent(screen)

LogInterrupted ==
    /\ pc = "log_wait"
    /\ ~LogDeadlinePassed
    /\ LogInterruptSeen
    /\ AfterLogWait(Result(1, << <<"interrupted">> >>, FALSE, ll.anchor_seen,
                           ll.fallback_scan, "interrupted"))
    /\ UNCHANGED <<poolVars, rdrVars, auxVars, response, flavor, env, timeout_s, now, deadline, wait_deadline, log_windowed,
                   pane_alive, screen, injected, pane_file, pane_offset, lines, ps,
                   idle_polls>>

\* One iteration of the structured loop that reaches wait_for_events.
LogPoll ==
    /\ pc = "log_wait"
    /\ ~LogDeadlinePassed
    /\ ~(PaneCheckDue /\ ~pane_alive)
    /\ ~LogInterruptSeen
    /\ LET events == [i \in 1..(Len(transcript) - log_offset) |->
                         [role |-> transcript[log_offset + i].role,
                          text |-> transcript[log_offset + i].text,
                          at |-> log_offset + i]]
           rebind == ~ll.rebounded /\ ~ll.anchor_seen /\ now >= ll.anchor_grace_deadline
           l == ProcessEvents(ll, events, TaskReqId, now)
       IN  IF events = <<>>
           THEN /\ ll' = IF rebind
                         THEN [ll EXCEPT !.fallback_scan = TRUE, !.rebounded = TRUE]
                         ELSE ll
                /\ log_offset' = IF rebind THEN 0 ELSE log_offset
                /\ last_pane_check' = IF PaneCheckDue THEN now ELSE last_pane_check
                /\ UNCHANGED <<pc, result, transcript>>
           ELSE IF l.done_seen
           THEN AfterLogWait(LogResult(l, "done"))
           ELSE /\ ll' = l
                /\ log_offset' = Len(transcript)
                /\ last_pane_check' = IF PaneCheckDue THEN now ELSE last_pane_check
                /\ UNCHANGED <<pc, result, transcript>>
    /\ UNCHANGED <<poolVars, rdrVars, auxVars, response, flavor, env, timeout_s, now, deadline, wait_deadline, log_windowed,
                   pane_alive, screen, injected, pane_file, pane_offset, lines, ps,
                   idle_polls>>

PaneDeadlineNever == FALSE

\* The deadline check at the top of the pane loop.
PaneDeadlinePassed == deadline # None /\ now >= deadline

\* The result _wait_for_response_pane builds after its loop.
PaneResult(s, ls, read, cause) ==
    [Result(IF s.done_seen THEN 0 ELSE 2, ExtractReplyFromPane(ls, TaskReqId),
            s.done_seen, s.anchor_seen, FALSE, cause)
        EXCEPT !.echo_src = s.echo_src, !.done_src = s.done_src,
               !.anchor_src = LastDoneLine(ls, TaskReqId), !.pane_read = read]

\* _wait_for_response_pane returns r: its locals and the pane reader's
\* cursor go with it.
PaneReturn(r) ==
    /\ result' = Finalize(r)
    /\ pc' = "returned"
    /\ lines' = <<>>
    /\ ps' = PaneLocals
    /\ pane_offset' = 0
    /\ idle_polls' = 0

\* The pane loop finds the deadline passed.
PaneDeadline ==
    /\ pc = "pane_wait"
    /\ PaneDeadlinePassed
    /\ PaneReturn(PaneResult(ps, lines, pane_offset, "deadline"))
    /\ UNCHANGED <<poolVars, rdrVars, auxVars, response, flavor, env, timeout_s, now, deadline, wait_deadline,
                   log_windowed, pane_alive, last_pane_check, screen, injected, transcript,
                   log_offset, ll, pane_file>>

\* The liveness probe of the pane loop finds the pane dead.
PaneDied ==
    /\ pc = "pane_wait"
    /\ ~PaneDeadlinePassed
    /\ PaneCheckDue
    /\ ~pane_alive
    /\ PaneReturn(Result(1, << <<"pane died">> >>, FALSE, ps.anchor_seen, FALSE, "pane_died"))
    /\ UNCHANGED <<poolVars, rdrVars, auxVars, response, flavor, env, timeout_s, now, deadline, wait_deadline,
                   log_windowed, pane_alive, last_pane_check, screen, injected, transcript,
                   log_offset, ll, pane_file>>

\* One iteration of the pane loop that reaches _read_pane_log.
PanePoll ==
    /\ pc = "pane_wait"
    /\ ~PaneDeadlinePassed
    /\ ~(PaneCheckDue /\ ~pane_alive)
    /\ pane_offset < Len(pane_file) \/ idle_polls < MaxIdlePolls
    /\ LET r == ReadPaneLog(pane_file, pane_offset)
           all == lines \o r.lines
           s == ProcessLines(ps, r.lines, TaskReqId)
       IN  IF s.done_seen
           THEN PaneReturn(PaneResult(s, all, r.offset, "done"))
           ELSE /\ lines' = all
                /\ pane_offset' = r.offset
                /\ ps' = s
                /\ idle_polls' = IF pane_offset = Len(pane_file)
                                 THEN idle_polls + 1 ELSE idle_polls
                /\ UNCHANGED <<result, pc>>
    /\ last_pane_check' = IF PaneCheckDue THEN now ELSE last_pane_check
    /\ UNCHANGED <<poolVars, rdrVars, auxVars, response, flavor, env, timeout_s, now, deadline, wait_deadline, log_windowed,
                   pane_alive, screen, injected, transcript, log_offset, ll, pane_file>>

(***************************************************************************)
(* The environment of a request                                            *)
(***************************************************************************)
Waiting == pc \in {"log_wait", "pane_wait"}

Tick ==
    /\ Waiting
    /\ now < MaxTime
    /\ now' = now + 1
    /\ UNCHANGED <<poolVars, rdrVars, auxVars, response, flavor, env, timeout_s, pc, deadline, wait_deadline, log_windowed,
                   pane_alive, last_pane_check, screen, injected, transcript, log_offset,
                   ll, pane_file, pane_offset, lines, ps, idle_polls, result>>

\* The loop the handler is in finds its deadline passed at its next step;
\* nothing the environment does from then on is read.
LoopDeadlinePassed == IF pc = "log_wait" THEN LogDeadlinePassed ELSE PaneDeadlinePassed

\* The pane dies.  The handlers read pane_alive only in a probe that is due,
\* so a death is modelled when the next probe is about to see it.
PaneDies ==
    /\ Waiting
    /\ ~LoopDeadlinePassed
    /\ PaneCheckDue
    /\ pane_alive
    /\ pane_alive' = FALSE
    /\ UNCHANGED <<poolVars, rdrVars, auxVars, response, flavor, env, timeout_s, pc, now, deadline, wait_deadline, log_windowed,
                   last_pane_check, screen, injected, transcript, log_offset, ll,
                   pane_file, pane_offset, lines, ps, idle_polls, result>>

\* The screen comes to show one of screens.  The screen is read only after
\* a probe that is due, so a change is modelled when the next probe is
\* about to see it.
ScreenShows(screens) ==
    /\ Waiting
    /\ ~LoopDeadlinePassed
    /\ PaneCheckDue
    /\ screen = <<>>
    /\ \E sc \in screens : screen' = sc
    /\ UNCHANGED <<poolVars, rdrVars, auxVars, response, flavor, env, timeout_s, pc, now, deadline, wait_deadline, log_windowed,
                   pane_alive, last_pane_check, injected, transcript, log_offset, ll,
                   pane_file, pane_offset, lines, ps, idle_polls, result>>

\* In the lifecycle of a request: laskd's screen shows the interrupt notice
\* after the request's id, or before it.
ScreenChanges == flavor = "laskd" /\ ScreenShows({<<"req", "int">>, <<"int", "req">>})

\* Any screen, under either handler.
ScreenChangesAny == ScreenShows(Screens \ {<<>>})

ReqLine == Marker(REQ_ID_PREFIX, TaskReqId)
BeginLine == Marker(BEGIN_PREFIX, TaskReqId)
DoneLine == Marker(DONE_PREFIX, TaskReqId)
Hello == <<"hello">>

\* The events the assistant's transcript may receive during a request.
LogEvents ==
    {Event("user", <<ReqLine>>), Event("assistant", <<Hello>>),
     Event("assistant", <<DoneLine>>)}

LogAppend ==
    /\ pc = "log_wait"
    /\ ~LogDeadlinePassed
    /\ Len(transcript) < MaxEvents
    /\ \E ev \in LogEvents : transcript' = Append(transcript, ev)
    /\ UNCHANGED <<poolVars, rdrVars, auxVars, response, flavor, env, timeout_s, pc, now, deadline, wait_deadline, log_windowed,
                   pane_alive, last_pane_check, screen, injected, log_offset, ll,
                   pane_file, pane_offset, lines, ps, idle_polls, result>>

\* The terminal echoes the injected prompt into the pane log.
EchoedPrompt == WrapClaudePrompt(Message, TaskReqId)

HasEcho(file) ==
    Len(file) >= Len(EchoedPrompt) /\ SubSeq(file, 1, Len(EchoedPrompt)) = EchoedPrompt

\* The lines of the pane log after the echoed prompt, if it starts with one.
AfterEcho(file) ==
    IF HasEcho(file) THEN SubSeq(file, Len(EchoedPrompt) + 1, Len(file)) ELSE file

PaneEcho ==
    /\ pc = "pane_wait"
    /\ pane_file = <<>>
    /\ pane_file' = EchoedPrompt
    /\ UNCHANGED <<poolVars, rdrVars, auxVars, response, flavor, env, timeout_s, pc, now, deadline, wait_deadline, log_windowed,
                   pane_alive, last_pane_check, screen, injected, transcript, log_offset,
                   ll, pane_offset, lines, ps, idle_polls, result>>

\* Lines the pane may show after the prompt: the markers of this request
\* and reply text.
ReplyLines == {BeginLine, DoneLine, Hello}

\* Lines that look like markers: DONE lines of other requests, and a BEGIN
\* line of this request with two spaces before the id.
MarkerLikeLines ==
    {Marker(DONE_PREFIX, b) : b \in OtherIds} \cup {<<BEGIN_PREFIX, SP, SP>> \o TaskReqId}

\* The terminal writes w, one or more complete lines, to the pane log.  What
\* it writes after the deadline has passed is never read: the loop's next
\* step returns.
PaneAppend(writes) ==
    /\ pc = "pane_wait"
    /\ ~PaneDeadlinePassed
    /\ \E w \in writes :
           /\ Len(AfterEcho(pane_file)) + Len(w) <= MaxPaneLines
           /\ pane_file' = pane_file \o w
    /\ UNCHANGED <<poolVars, rdrVars, auxVars, response, flavor, env, timeout_s, pc, now, deadline, wait_deadline, log_windowed,
                   pane_alive, last_pane_check, screen, injected, transcript, log_offset,
                   ll, pane_offset, lines, ps, idle_polls, result>>

\* A reply written as its BEGIN line with the text, then its DONE line.
PaneAppendReply == PaneAppend({<<BeginLine, Hello>>, <<DoneLine>>})

\* Any line of ReplyLines, one at a time.
PaneAppendLine == PaneAppend({<<l>> : l \in ReplyLines})

\* Any line, marker-like lines included, one at a time.
PaneAppendAny == PaneAppend({<<l>> : l \in ReplyLines \cup MarkerLikeLines})

\* Any line of the protocol, one at a time: the markers of this request,
\* its REQ_ID line and the instruction line included, and reply text.
InstructionLine == <<IMPORTANT, SP, END_YOUR_REPLY>>

MaxGateLines == 3

PaneAppendProtocol ==
    /\ Len(AfterEcho(pane_file)) < MaxGateLines
    /\ PaneAppend({<<l>> : l \in ReplyLines \cup {ReqLine, InstructionLine}})

(***************************************************************************)
(* laskd's RPC handler (_handle_request)                                   *)
(***************************************************************************)
RpcSlackTicks == 10     \* 5.0 s

NoResponse == [exit_code |-> -1]

WaitTimeoutAlways == timeout_s + RpcSlackTicks

\* wait_timeout = None if timeout_s < 0 else timeout_s + 5.0
WaitTimeout == IF timeout_s < 0 THEN None ELSE timeout_s + RpcSlackTicks

\* done_event.wait(timeout=wait_timeout) times out: task.result is None.
RpcTimeout ==
    /\ flavor = "laskd"
    /\ response = NoResponse
    /\ ~Returned
    /\ WaitTimeout # None
    /\ now >= WaitTimeout
    /\ response' = [type |-> "lask.response", v |-> 1, id |-> "client",
                    exit_code |-> 2, reply |-> <<>>]
    /\ UNCHANGED <<reqVars, poolVars, rdrVars, auxVars>>

\* done_event is set: the response carries the task's result.
RpcRespond ==
    /\ flavor = "laskd"
    /\ response = NoResponse
    /\ Returned
    /\ response' = [type |-> "lask.response", v |-> 1, id |-> "client",
                    req_id |-> result.req_id, exit_code |-> result.exit_code,
                    reply |-> result.reply,
                    meta |-> [done_seen |-> result.done_seen,
                              anchor_seen |-> result.anchor_seen,
                              fallback_scan |-> result.fallback_scan]]
    /\ UNCHANGED <<reqVars, poolVars, rdrVars, auxVars>>

\* LaskdRequest(...) raises on the message (a timeout_s that is no number):
\* the handler answers at once and nothing is submitted to the pool.
RpcBadRequest ==
    /\ flavor = "laskd"
    /\ response = NoResponse
    /\ pc = "start"
    /\ pc' = "rejected"
    /\ response' = [type |-> "lask.response", v |-> 1, id |-> "client",
                    exit_code |-> 1, reply |-> << <<"Bad request">> >>]
    /\ UNCHANGED <<poolVars, rdrVars, auxVars, flavor, env, timeout_s, now, deadline,
                   wait_deadline, log_windowed, pane_alive, last_pane_check, screen,
                   injected, transcript, log_offset, ll, pane_file, pane_offset, lines,
                   ps, idle_polls, result>>

(***************************************************************************)
(* laskd's worker pool (_WorkerPool, PerSessionWorkerPool,                 *)
(* BaseSessionWorker)                                                      *)
(***************************************************************************)
MaxTasks == 3           \* requests submitted

Tasks == 1..MaxTasks
NoTask == 0

\* What load_project_session returns for the request's work_dir.
NoSession == [present |-> FALSE, marker |-> "", pane_id |-> "", session_id |-> ""]

Session(marker, pane_id, session_id) ==
    [present |-> TRUE, marker |-> marker, pane_id |-> pane_id, session_id |-> session_id]

Descriptors ==
    {NoSession, Session("", "", "s1"), Session("", "p1", "s1"), Session("m1", "p1", "s1"),
     Session("", "p2", "s2")}

\* compute_session_key: pane_title_marker, else pane_id, else session_id.
ComputeSessionKey(session) ==
    IF session.marker # "" THEN <<"claude_marker", session.marker>>
    ELSE IF session.pane_id # "" THEN <<"claude_pane", session.pane_id>>
    ELSE <<"claude", session.session_id>>

\* session_key = compute_session_key(session) if session else "claude:unknown"
SubmitKey(session) ==
    IF session.present THEN ComputeSessionKey(session) ELSE <<"claude", "unknown">>

Keys == {SubmitKey(d) : d \in Descriptors}

NoKey == <<"", "">>

\* task.result: None, or the LaskdResult the worker has set.
NoTaskResult == [exit_code |-> None, reply |-> "", done_seen |-> FALSE, req_id |-> NoTask]

TaskResult(exit_code, reply, done_seen, req_id) ==
    [exit_code |-> exit_code, reply |-> reply, done_seen |-> done_seen, req_id |-> req_id]

\* session.ensure_pane(): (ok, pane_id)
EnsurePane(session) == [ok |-> session.pane_id # "", pane_id |-> session.pane_id]

SubmitFront(t) ==
    /\ task_state[t] = "new"
    /\ \A u \in Tasks : u < t => task_state[u] # "new"
    /\ LET key == SubmitKey(descriptor)
       IN  /\ workers' = workers \cup {key}
           /\ queue' = [queue EXCEPT ![key] = <<t>> \o @]
           /\ enqueued' = [enqueued EXCEPT ![key] = Append(@, t)]
           /\ task_key' = [task_key EXCEPT ![t] = key]
    /\ task_state' = [task_state EXCEPT ![t] = "queued"]
    /\ UNCHANGED <<descriptor, current, task_pane, started, task_result, reqVars, response, rdrVars, auxVars>>

\* _WorkerPool.submit: the task is made with its req_id (tasks are numbered
\* in the order submit makes them), then the key of the session as it is
\* now, the worker of that key (created on first use), the task at the end
\* of its queue.
Submit(t) ==
    /\ task_state[t] = "new"
    /\ \A u \in Tasks : u < t => task_state[u] # "new"
    /\ LET key == SubmitKey(descriptor)
       IN  /\ workers' = workers \cup {key}
           /\ queue' = [queue EXCEPT ![key] = Append(@, t)]
           /\ enqueued' = [enqueued EXCEPT ![key] = Append(@, t)]
           /\ task_key' = [task_key EXCEPT ![t] = key]
    /\ task_state' = [task_state EXCEPT ![t] = "queued"]
    /\ UNCHANGED <<descriptor, current, task_pane, started, task_result, reqVars, response, rdrVars, auxVars>>

\* The worker of key k takes its next task and runs _handle_task up to
\* send_text: the session is loaded again; without a session or a pane the
\* handler returns at once and the task's result is set.
WorkerStart(k) ==
    /\ k \in workers
    /\ current[k] = NoTask
    /\ queue[k] # <<>>
    /\ LET t == Head(queue[k])
           pane == EnsurePane(descriptor)
       IN  /\ queue' = [queue EXCEPT ![k] = Tail(@)]
           /\ started' = [started EXCEPT ![k] = Append(@, t)]
           /\ IF descriptor.present /\ pane.ok
              THEN /\ current' = [current EXCEPT ![k] = t]
                   /\ task_state' = [task_state EXCEPT ![t] = "injected"]
                   /\ task_pane' = [task_pane EXCEPT ![t] = pane.pane_id]
                   /\ UNCHANGED task_result
              ELSE /\ task_state' = [task_state EXCEPT ![t] = "done"]
                   /\ task_result' = [task_result EXCEPT
                          ![t] = TaskResult(1, "no session", FALSE, t)]
                   /\ UNCHANGED <<current, task_pane>>
    /\ UNCHANGED <<descriptor, workers, task_key, enqueued, reqVars, response, rdrVars, auxVars>>

\* _handle_task returns; the worker sets task.result and the done_event.
WorkerFinish(k) ==
    /\ k \in workers
    /\ current[k] # NoTask
    /\ task_state' = [task_state EXCEPT ![current[k]] = "done"]
    /\ task_pane' = [task_pane EXCEPT ![current[k]] = ""]
    /\ task_result' = [task_result EXCEPT
           ![current[k]] = TaskResult(0, "returned", TRUE, current[k])]
    /\ current' = [current EXCEPT ![k] = NoTask]
    /\ UNCHANGED <<descriptor, workers, queue, task_key, enqueued, started, reqVars,
                   response, rdrVars, auxVars>>

HandleExceptionDone(exc, t) == TaskResult(1, exc, TRUE, t)

\* _SessionWorker._handle_exception: the result of a task whose handler raised.
HandleException(exc, t) == TaskResult(1, exc, FALSE, t)

\* _handle_task raises, after the prompt was injected or before (then the
\* worker has just taken the task from its queue); the worker sets the
\* result of _handle_exception and the done_event, and takes the next task.
WorkerRaise(k) ==
    /\ k \in workers
    /\ IF current[k] # NoTask
       THEN /\ task_state' = [task_state EXCEPT ![current[k]] = "done"]
            /\ task_pane' = [task_pane EXCEPT ![current[k]] = ""]
            /\ task_result' = [task_result EXCEPT
                   ![current[k]] = HandleException("boom", current[k])]
            /\ current' = [current EXCEPT ![k] = NoTask]
            /\ UNCHANGED <<queue, started>>
       ELSE /\ queue[k] # <<>>
            /\ LET t == Head(queue[k])
               IN  /\ queue' = [queue EXCEPT ![k] = Tail(@)]
                   /\ started' = [started EXCEPT ![k] = Append(@, t)]
                   /\ task_state' = [task_state EXCEPT ![t] = "done"]
                   /\ task_result' = [task_result EXCEPT ![t] = HandleException("boom", t)]
            /\ UNCHANGED <<current, task_pane>>
    /\ UNCHANGED <<descriptor, workers, task_key, enqueued, reqVars, response, rdrVars, auxVars>>

\* The session descriptor of the project is written, replaced or removed.
DescriptorChanges ==
    /\ \E d \in Descriptors \ {descriptor} : descriptor' = d
    /\ UNCHANGED <<workers, queue, current, task_state, task_key, task_pane, enqueued,
                   started, task_result, reqVars, response, rdrVars, auxVars>>

\* A pool to which nothing has been submitted.
InitPoolEmpty ==
    /\ workers = {}
    /\ queue = [k \in Keys |-> <<>>]
    /\ current = [k \in Keys |-> NoTask]
    /\ task_state = [t \in Tasks |-> "new"]
    /\ task_key = [t \in Tasks |-> NoKey]
    /\ task_pane = [t \in Tasks |-> ""]
    /\ enqueued = [k \in Keys |-> <<>>]
    /\ started = [k \in Keys |-> <<>>]
    /\ task_result = [t \in Tasks |-> NoTaskResult]

(***************************************************************************)
(* The pane-log reader of the Claude adapter, on bytes                     *)
(***************************************************************************)
CR == "\r"

MaxBytes == 3
MaxOut == 4

Absent == <<"(no such file)">>
PaneLogPath == "pane.log"
OldLog == "a.jsonl"
NewLog == "b.jsonl"
NoPath == "None"
Paths == {PaneLogPath, OldLog, NewLog}

\* Path.stat().st_size
Size(path) == Len(files[path])

\* _pane_log_state: the cursor at the end of the pane log.
PaneLogState(path) == [offset |-> Size(path), carry |-> <<>>]

\* _read_pane_log: the bytes after the offset (after 0 when the file is
\* shorter than the offset), with the carry put before them, "\r" replaced
\* by "\n" and split at "\n"; an unterminated last piece becomes the carry.
ReadPaneLogBytes(state, path) ==
    LET size == Size(path)
        offset == IF size < state.offset THEN 0 ELSE state.offset
        carry == IF size < state.offset THEN <<>> ELSE state.carry
        data == SubSeq(files[path], offset + 1, size)
        joined == carry \o data
        buf == [i \in 1..Len(joined) |-> IF joined[i] = CR THEN NL ELSE joined[i]]
        split == SplitNewlines(buf)
        fragment == buf # <<>> /\ buf[Len(buf)] # NL
        raw == IF fragment THEN SubSeq(split, 1, Len(split) - 1) ELSE split
    IN  [out |-> [i \in 1..Len(raw) |-> CleanLine(raw[i])],
         state |-> [offset |-> offset + Len(data),
                    carry |-> IF fragment THEN split[Len(split)] ELSE <<>>]]

\* One poll of the pane log, continuing from the cursor of the last one.
PaneLogPoll ==
    /\ reader = "pane"
    /\ Len(pane_out) < MaxOut
    /\ LET r == ReadPaneLogBytes(pane_cursor, PaneLogPath)
       IN  /\ pane_cursor' = r.state
           /\ pane_out' = pane_out \o r.out
    /\ UNCHANGED <<reqVars, response, poolVars, auxVars, reader, files, truncated, appended,
                   preferred_log, cursor, rs, rnow, delivered, wbuf, nmsgs, torn>>

\* tmux pipe-pane appends the pane's output to the pane log, in writes that
\* end anywhere.
PaneLogWrite ==
    /\ reader = "pane"
    /\ Len(appended) < MaxBytes
    /\ \E b \in {"a", "b", NL, CR} :
          /\ files' = [files EXCEPT ![PaneLogPath] = Append(@, b)]
          /\ appended' = Append(appended, b)
    /\ UNCHANGED <<reqVars, response, poolVars, auxVars, reader, truncated, pane_cursor, pane_out,
                   preferred_log, cursor, rs, rnow, delivered, wbuf, nmsgs, torn>>

\* The pane log is cut to nothing, below the cursor's offset (the log is
\* recreated or rotated in place).
PaneLogTruncate ==
    /\ reader = "pane"
    /\ pane_cursor.offset > 0
    /\ files[PaneLogPath] # <<>>
    /\ files' = [files EXCEPT ![PaneLogPath] = <<>>]
    /\ truncated' = TRUE
    /\ UNCHANGED <<reqVars, response, poolVars, auxVars, reader, pane_cursor, pane_out, appended,
                   preferred_log, cursor, rs, rnow, delivered, wbuf, nmsgs, torn>>

(***************************************************************************)
(* CodexLogReader (lib/codex_comm.py)                                      *)
(***************************************************************************)
MaxMsgs == 2
MaxClock == 8

\* The reader's times in poll intervals of 0.05 s: _poll_interval, and the
\* limits of rescan_interval (0.2 s and 2.0 s).
PollTicks == 1
RescanMinTicks == 4
RescanMaxTicks == 40

\* A JSONL line is "{", the entry, "}" and a newline; the entry is the text
\* of a message (a response_item of type message) or another entry.
Msgs == <<"m1", "m2", "m3", "m4">>
NoMsg == "None"
MetaLine == <<"{", "meta", "}", NL>>
EncodeMessage(m) == <<"{", m, "}", NL>>

\* json.loads of the stripped line, then _extract_message: the text of a
\* message entry, NoMsg for a line that does not parse or is another entry.
ExtractMessage(line) ==
    LET t == IF line # <<>> /\ line[Len(line)] = NL
             THEN SubSeq(line, 1, Len(line) - 1) ELSE line
    IN  IF Len(t) = 3 /\ t[1] = "{" /\ t[3] = "}" /\ t[2] # "meta" THEN t[2] ELSE NoMsg

\* The inner loop of _read_since without its deadline check: readline from
\* the offset until a line holds a message or nothing is left; the offset
\* becomes fh.tell() after every line read, terminated or not.
RECURSIVE ReadLines(_, _)
ReadLines(bytes, offset) ==
    IF offset >= Len(bytes) THEN [message |-> NoMsg, offset |-> offset]
    ELSE LET rest == SubSeq(bytes, offset + 1, Len(bytes))
             n == IF \E i \in 1..Len(rest) : rest[i] = NL
                  THEN CHOOSE k \in 1..Len(rest) :
                           rest[k] = NL /\ \A j \in 1..(k - 1) : rest[j] # NL
                  ELSE Len(rest)
             message == ExtractMessage(SubSeq(rest, 1, n))
         IN  IF message # NoMsg THEN [message |-> message, offset |-> offset + n]
             ELSE ReadLines(bytes, offset + n)

\* Path.exists()
Exists(path) == path # NoPath /\ files[path] # Absent

\* _scan_latest: the transcript with the latest st_mtime; the writer writes
\* to the newest transcript, so that is the new one once it exists.
ScanLatest ==
    IF Exists(NewLog) THEN NewLog ELSE IF Exists(OldLog) THEN OldLog ELSE NoPath

\* ensure_log of _read_since: _preferred_log if it exists, else current_path
\* if it exists, else the latest transcript; NoPath for FileNotFoundError.
EnsureLog(current_path) ==
    IF Exists(preferred_log) THEN preferred_log
    ELSE IF Exists(current_path) THEN current_path
    ELSE ScanLatest

\* capture_state: the log _latest_log gives and its size.
CaptureState ==
    LET log == IF Exists(preferred_log) THEN preferred_log ELSE ScanLatest
    IN  [log_path |-> log, offset |-> IF Exists(log) THEN Size(log) ELSE 0]

NoCall == [active |-> FALSE, block |-> FALSE, deadline |-> 0, current_path |-> NoPath,
           offset |-> 0, last_rescan |-> 0, rescan_interval |-> 0]

CodexTimeouts == {2, 6}

\* wait_for_message(state, timeout) (block) and try_get_message(state): the
\* entry of _read_since with the cursor the caller holds.
ReadSinceCall ==
    /\ reader = "codex"
    /\ ~rs.active
    /\ \E block \in BOOLEAN : \E timeout \in (IF block THEN CodexTimeouts ELSE {0}) :
          /\ rnow + timeout < MaxClock
          /\ rs' = [active |-> TRUE, block |-> block, deadline |-> rnow + timeout,
                    current_path |-> cursor.log_path, offset |-> cursor.offset,
                    last_rescan |-> rnow,
                    rescan_interval |->
                        Min(RescanMaxTicks,
                            IF timeout \div 2 > RescanMinTicks THEN timeout \div 2
                            ELSE RescanMinTicks)]
    /\ UNCHANGED <<reqVars, response, poolVars, auxVars, reader, files, truncated, pane_cursor,
                   pane_out, appended, preferred_log, cursor, rnow, delivered, wbuf,
                   nmsgs, torn>>

\* _read_since returns (message, state).
ReadSinceReturn(message, log_path, offset) ==
    /\ cursor' = [log_path |-> log_path, offset |-> offset]
    /\ delivered' = IF message = NoMsg THEN delivered ELSE Append(delivered, message)
    /\ rs' = NoCall

\* One turn of the outer loop in which ensure_log raises FileNotFoundError:
\* try_get_message returns, wait_for_message sleeps and tries again.
ReadSinceNoLog ==
    /\ reader = "codex"
    /\ rs.active
    /\ EnsureLog(rs.current_path) = NoPath
    /\ IF ~rs.block
       THEN /\ ReadSinceReturn(NoMsg, NoPath, 0)
            /\ UNCHANGED rnow
       ELSE /\ rnow < MaxClock
            /\ rnow' = rnow + PollTicks
            /\ UNCHANGED <<cursor, delivered, rs>>
    /\ UNCHANGED <<reqVars, response, poolVars, auxVars, reader, files, truncated, pane_cursor,
                   pane_out, appended, preferred_log, wbuf, nmsgs, torn>>

\* One turn of the outer loop on the log ensure_log gives: the lines from
\* the offset are read; with no message among them the reader rebinds to a
\* newer transcript when a rescan is due, or sleeps a poll interval.
ReadSincePoll ==
    /\ reader = "codex"
    /\ rs.active
    /\ EnsureLog(rs.current_path) # NoPath
    /\ LET log_path == EnsureLog(rs.current_path)
           scanned == ~Exists(preferred_log) /\ ~Exists(rs.current_path)
           r == ReadLines(files[log_path], rs.offset)
           due == rnow - rs.last_rescan >= rs.rescan_interval
           latest == ScanLatest
       IN  IF rs.block /\ rnow >= rs.deadline
           THEN /\ ReadSinceReturn(NoMsg, log_path, rs.offset)
                /\ preferred_log' = IF scanned THEN log_path ELSE preferred_log
                /\ UNCHANGED rnow
           ELSE IF r.message # NoMsg
           THEN /\ ReadSinceReturn(r.message, log_path, r.offset)
                /\ preferred_log' = IF scanned THEN log_path ELSE preferred_log
                /\ UNCHANGED rnow
           ELSE IF due /\ latest # log_path
           THEN /\ preferred_log' = latest
                /\ IF ~rs.block
                   THEN /\ ReadSinceReturn(NoMsg, latest, Size(latest))
                        /\ UNCHANGED rnow
                   ELSE /\ rnow < MaxClock
                        /\ rnow' = rnow + PollTicks
                        /\ rs' = [rs EXCEPT !.current_path = latest,
                                            !.offset = Size(latest),
                                            !.last_rescan = rnow + PollTicks]
                        /\ UNCHANGED <<cursor, delivered>>
           ELSE /\ preferred_log' = IF scanned THEN log_path ELSE preferred_log
                /\ IF ~rs.block
                   THEN /\ ReadSinceReturn(NoMsg, log_path, r.offset)
                        /\ UNCHANGED rnow
                   ELSE /\ rnow < MaxClock
                        /\ rnow' = rnow + PollTicks
                        /\ IF rnow + PollTicks >= rs.deadline
                           THEN ReadSinceReturn(NoMsg, log_path, r.offset)
                           ELSE /\ rs' = [rs EXCEPT
                                       !.offset = r.offset,
                                       !.last_rescan = IF due THEN rnow ELSE @]
                                /\ UNCHANGED <<cursor, delivered>>
    /\ UNCHANGED <<reqVars, response, poolVars, auxVars, reader, files, truncated, pane_cursor,
                   pane_out, appended, wbuf, nmsgs, torn>>

\* Codex appends a message's JSONL line to the newest transcript, in one
\* write or in several.
WriterWrite ==
    /\ reader = "codex"
    /\ ScanLatest # NoPath
    /\ wbuf = <<>> => nmsgs < MaxMsgs
    /\ LET line == IF wbuf = <<>> THEN EncodeMessage(Msgs[nmsgs + 1]) ELSE wbuf
       IN  \E n \in 1..Len(line) :
              /\ files' = [files EXCEPT ![ScanLatest] = @ \o SubSeq(line, 1, n)]
              /\ wbuf' = SubSeq(line, n + 1, Len(line))
              /\ torn' = (torn \/ n < Len(line))
    /\ nmsgs' = IF wbuf = <<>> THEN nmsgs + 1 ELSE nmsgs
    /\ UNCHANGED <<reqVars, response, poolVars, auxVars, reader, truncated, pane_cursor, pane_out,
                   appended, preferred_log, cursor, rs, rnow, delivered>>

\* A new session of Codex starts a new transcript, which is the newest from
\* then on.
Rotate ==
    /\ reader = "codex"
    /\ ~Exists(NewLog)
    /\ wbuf = <<>>
    /\ files' = [files EXCEPT ![NewLog] = <<>>]
    /\ UNCHANGED <<reqVars, response, poolVars, auxVars, reader, truncated, pane_cursor, pane_out,
                   appended, preferred_log, cursor, rs, rnow, delivered, wbuf, nmsgs,
                   torn>>

\* The old transcript is removed once there is a new one.
RemoveOld ==
    /\ reader = "codex"
    /\ Exists(OldLog)
    /\ Exists(NewLog)
    /\ files' = [files EXCEPT ![OldLog] = Absent]
    /\ UNCHANGED <<reqVars, response, poolVars, auxVars, reader, truncated, pane_cursor, pane_out,
                   appended, preferred_log, cursor, rs, rnow, delivered, wbuf, nmsgs,
                   torn>>

\* The newest transcript is cut to nothing and written anew.
TruncateLog ==
    /\ reader = "codex"
    /\ ~truncated
    /\ ScanLatest # NoPath
    /\ files[ScanLatest] # <<>>
    /\ files' = [files EXCEPT ![ScanLatest] = <<>>]
    /\ wbuf' = <<>>
    /\ truncated' = TRUE
    /\ UNCHANGED <<reqVars, response, poolVars, auxVars, reader, pane_cursor, pane_out, appended,
                   preferred_log, cursor, rs, rnow, delivered, nmsgs, torn>>

\* No reader is exercised.
NoReaders ==
    /\ reader = "none"
    /\ files = [p \in Paths |-> Absent]
    /\ truncated = FALSE
    /\ pane_cursor = [offset |-> 0, carry |-> <<>>]
    /\ pane_out = <<>>
    /\ appended = <<>>
    /\ preferred_log = NoPath
    /\ cursor = [log_path |-> NoPath, offset |-> 0]
    /\ rs = NoCall
    /\ rnow = 0
    /\ delivered = <<>>
    /\ wbuf = <<>>
    /\ nmsgs = 0
    /\ torn = FALSE

(***************************************************************************)
(* The session descriptor file and its writers                             *)
(***************************************************************************)
MaxInodes == 3

DescWriters == {1, 2}
OldContents == <<"o", "o">>
Payloads == {<<"a", "a">>, <<"b">>}
NoInode == None

NoWrite == [pc |-> "idle", fd |-> NoInode, payload |-> <<>>]

\* The descriptor exists with its old contents and nobody writes it.
DescriptorAtRest ==
    /\ dfs = [project |-> 1, tmp |-> NoInode, data |-> <<OldContents>>]
    /\ dwriters = [w \in DescWriters |-> NoWrite]
    /\ dseen = OldContents

NoRet == [returned |-> FALSE]
NoFnCall == [fn |-> "none"]

MaxDaemons == 3
Daemons == 1..MaxDaemons
NoPid == None

\* No daemon runs and there is no state file.
NoDaemons ==
    /\ state_file = NoPid
    /\ daemons = [d \in Daemons |-> [pc |-> "off", st |-> NoPid]]

MaxCalls == 4
WorkerKeys == {"k1", "k2", "k3"}
WorkerObjects == 1..MaxCalls
NoWorker == None

\* PerSessionWorkerPool(): no worker under any key, nothing started.
NoKeyedWorkers ==
    /\ pool_workers = [k \in WorkerKeys |-> NoWorker]
    /\ thread_starts = [w \in WorkerObjects |-> 0]
    /\ goc_log = <<>>

\* _SessionEntry: the fields the monitor reads and writes.  refreshed_at,
\* changed and invalid_since record when the binding was last refreshed, what
\* that refresh returned, and when valid last went from True to False.
NoEntry ==
    [present |-> FALSE, valid |-> FALSE, last_check |-> 0,
     next_bind_refresh |-> 0, bind_backoff_s |-> 0,
     refreshed_at |-> None, changed |-> FALSE, invalid_since |-> None]

MaxQTasks == 2
QTasks == 1..MaxQTasks

\* A request not yet submitted.
NoQTask ==
    [at |-> "new", timeout_s |-> 0, submitted_at |-> None, rpc |-> "none",
     started_at |-> None, deadline |-> None, injections |-> 0, results |-> 0]

\* No request under way.
NoInject ==
    [path |-> "none", at |-> 0, state |-> None, pane_state |-> None, sent |-> 0]

\* SessionRegistry(): no session cached, the monitor has not run.  No
\* request has arrived, the transcript and the pane log are empty.
NoExt ==
    /\ mon_now = 0
    /\ mon_last_run = 0
    /\ mon_entry = NoEntry
    /\ inj = NoInject
    /\ inj_log = <<>>
    /\ inj_pane = <<>>
    /\ q_now = 0
    /\ q_tasks = [t \in QTasks |-> NoQTask]
    /\ q_queue = <<>>

NoAux ==
    /\ DescriptorAtRest
    /\ fn_call = NoFnCall
    /\ fn_ret = NoRet
    /\ NoDaemons
    /\ NoKeyedWorkers
    /\ NoExt

\* _remember_codex_session with something to update:
\* tmp_file = project_file.with_suffix(".tmp"); tmp_file.open("w") creates
\* the file, or cuts the file of that name to nothing when there is one.
DescOpenTmp(w) ==
    /\ dwriters[w].pc = "idle"
    /\ dfs.tmp = NoInode => Len(dfs.data) < MaxInodes
    /\ \E payload \in Payloads :
          LET fd == IF dfs.tmp = NoInode THEN Len(dfs.data) + 1 ELSE dfs.tmp
          IN  /\ dfs' = [dfs EXCEPT
                      !.tmp = fd,
                      !.data = IF dfs.tmp = NoInode THEN Append(@, <<>>)
                               ELSE [@ EXCEPT ![fd] = <<>>]]
              /\ dwriters' = [dwriters EXCEPT
                      ![w] = [pc |-> "open", fd |-> fd, payload |-> payload]]
    /\ UNCHANGED <<reqVars, response, poolVars, rdrVars, extVars, dseen, fnVars, daemonVars, keyedVars>>

\* json.dump(data, handle) and the close of the handle: the contents go to
\* the open file from its start.
DescWriteTmp(w) ==
    /\ dwriters[w].pc = "open"
    /\ LET fd == dwriters[w].fd
           payload == dwriters[w].payload
           old == dfs.data[fd]
       IN  dfs' = [dfs EXCEPT
               !.data[fd] = payload \o SubSeq(old, Len(payload) + 1, Len(old))]
    /\ dwriters' = [dwriters EXCEPT ![w].pc = "written"]
    /\ UNCHANGED <<reqVars, response, poolVars, rdrVars, extVars, dseen, fnVars, daemonVars, keyedVars>>

\* os.replace(tmp_file, project_file); when there is no file of the
\* temporary name any more it raises and nothing is left to remove.
DescReplace(w) ==
    /\ dwriters[w].pc = "written"
    /\ dfs' = IF dfs.tmp = NoInode THEN dfs
              ELSE [dfs EXCEPT !.project = dfs.tmp, !.tmp = NoInode]
    /\ dwriters' = [dwriters EXCEPT ![w] = NoWrite]
    /\ UNCHANGED <<reqVars, response, poolVars, rdrVars, extVars, dseen, fnVars, daemonVars, keyedVars>>

\* A reader loads the descriptor file.
DescRead ==
    /\ dseen' = dfs.data[dfs.project]
    /\ dseen' # dseen
    /\ UNCHANGED <<reqVars, response, poolVars, rdrVars, extVars, dfs, dwriters, fnVars, daemonVars, keyedVars>>

(***************************************************************************)
(* Functions checked on their own                                          *)
(***************************************************************************)
\* _refresh_claude_log_binding.  The session ids are "U" and "V", their
\* transcripts LogOf; b is the descriptor with the stored binding and the
\* session id of its start_cmd, and what the helpers find under the root:
\* the transcripts that exist, which of them was modified last, the
\* transcript the sessions index names and the one the scan finds.
NoSid == "none"
LogOf == [U |-> "U.jsonl", V |-> "V.jsonl"]
SidOf(path) == IF path = LogOf.U THEN "U" ELSE "V"

\* _should_overwrite_binding
ShouldOverwriteBinding(b, current_log, candidate) ==
    \/ current_log = NoPath
    \/ current_log \notin b.exist
    \/ b.newest = candidate /\ current_log # candidate

RefreshClaudeLogBinding(b) ==
    LET current_log == b.path
        intended_sid == b.start_sid
        intended_log == IF intended_sid # NoSid /\ LogOf[intended_sid] \in b.exist
                        THEN LogOf[intended_sid] ELSE NoPath
        index_session == IF b.index \in b.exist THEN b.index ELSE NoPath
        candidate_log == IF b.scan \in b.exist THEN b.scan ELSE NoPath
        bound(log, sid) == [returned |-> TRUE, updated |-> TRUE, sid |-> sid, path |-> log]
        kept == [returned |-> TRUE, updated |-> FALSE, sid |-> b.sid, path |-> b.path]
    IN  IF intended_log # NoPath
        THEN IF ShouldOverwriteBinding(b, current_log, intended_log) \/ b.sid # intended_sid
             THEN bound(intended_log, intended_sid)
             ELSE kept
        ELSE IF /\ index_session # NoPath
                /\ \/ ShouldOverwriteBinding(b, current_log, index_session)
                   \/ b.sid # SidOf(index_session)
        THEN bound(index_session, SidOf(index_session))
        ELSE IF index_session # NoPath /\ ~b.force_scan THEN kept
        ELSE IF ~(b.force_scan \/ (intended_log = NoPath /\ b.index = NoPath)) THEN kept
        ELSE IF candidate_log = NoPath THEN kept
        ELSE IF \/ ShouldOverwriteBinding(b, current_log, candidate_log)
                \/ SidOf(candidate_log) # b.sid
        THEN bound(candidate_log, SidOf(candidate_log))
        ELSE kept

Bindings ==
    [sid : {NoSid, "U", "V"}, path : {NoPath, LogOf.U, LogOf.V},
     start_sid : {NoSid, "U"}, exist : SUBSET {LogOf.U, LogOf.V},
     newest : {LogOf.U, LogOf.V, "same"}, index : {NoPath, LogOf.U, LogOf.V},
     scan : {NoPath, LogOf.V}, force_scan : BOOLEAN]

\* One call, and for either value of force_scan the call that follows it
\* on the descriptor the first has left, with nothing else changed.
ApplyRefresh ==
    /\ fn_call.fn = "_refresh_claude_log_binding"
    /\ fn_ret = NoRet
    /\ LET r == RefreshClaudeLogBinding(fn_call.arg)
       IN  fn_ret' =
             [returned |-> TRUE, updated |-> r.updated, sid |-> r.sid, path |-> r.path,
              following |->
                 [f \in BOOLEAN |->
                    RefreshClaudeLogBinding([fn_call.arg EXCEPT !.sid = r.sid,
                                                               !.path = r.path,
                                                               !.force_scan = f])]]
    /\ UNCHANGED <<reqVars, response, poolVars, rdrVars, extVars, descVars, daemonVars, keyedVars, fn_call>>

\* _BOX_TABLE_CHARS, as two tokens: the vertical bar of a box-drawn table
\* and any of its other characters.
BOX_BAR == "(box-bar)"
BOX_RULE == "(box-rule)"
BoxTableChars == {BOX_BAR, BOX_RULE}

IsBoxTableLine(line) == \E i \in 1..Len(line) : line[i] \in BoxTableChars

\* [p.strip() for p in raw.strip(BAR).split(BAR)]
SplitBoxRow(raw) ==
    LET inner == {i \in 1..Len(raw) : raw[i] # BOX_BAR}
        s == IF inner = {} THEN <<>>
             ELSE SubSeq(raw, CHOOSE i \in inner : \A j \in inner : i <= j,
                              CHOOSE i \in inner : \A j \in inner : j <= i)
        pos == {i \in 1..Len(s) : s[i] = BOX_BAR}
        k == Cardinality(pos)
        bound(j) == IF j = 0 THEN 0
                    ELSE IF j = k + 1 THEN Len(s) + 1
                    ELSE CHOOSE q \in pos : Cardinality({r \in pos : r < q}) = j - 1
    IN  [j \in 1..(k + 1) |-> Strip(SubSeq(s, bound(j - 1) + 1, bound(j) - 1))]

\* "| " + " | ".join(cells) + " |", without the outer pipes
RECURSIVE JoinCells(_)
JoinCells(cells) ==
    IF Len(cells) = 1 THEN cells[1]
    ELSE cells[1] \o <<SP, "|", SP>> \o JoinCells(Tail(cells))

MarkdownRow(cells) == <<"|", SP>> \o JoinCells(cells) \o <<SP, "|">>

\* _convert_box_table_to_markdown on the lines of the text.  The block runs
\* from the first box line to the line before the first line after it that
\* is neither a box line nor blank; its rows are its lines with a bar and a
\* non-empty cell; the first row is the header.  The text comes back as it
\* was when there is no block or no row.
ConvertBoxTableToMarkdown(text) ==
    LET n == Len(text)
        box == {i \in 1..n : IsBoxTableLine(text[i])}
        start == CHOOSE i \in box : \A j \in box : i <= j
        stops == {i \in (start + 1)..n :
                     ~IsBoxTableLine(text[i]) /\ Strip(text[i]) # <<>>}
        end == IF stops = {} THEN n
               ELSE (CHOOSE i \in stops : \A j \in stops : i <= j) - 1
        block == SubSeq(text, start, end)
        parts == [i \in 1..Len(block) |->
                     IF Contains(block[i], <<BOX_BAR>>) THEN SplitBoxRow(Strip(block[i]))
                     ELSE <<>>]
        rows == SelectSeq(parts, LAMBDA p : \E c \in 1..Len(p) : p[c] # <<>>)
        header == rows[1]
        col_count == Len(header)
        fit(row) == [c \in 1..col_count |-> IF c <= Len(row) THEN row[c] ELSE <<>>]
        out == <<MarkdownRow(header), MarkdownRow([c \in 1..col_count |-> <<"---">>])>>
                   \o [i \in 1..(Len(rows) - 1) |-> MarkdownRow(fit(rows[i + 1]))]
        rebuilt == DropTrailingBlank(SubSeq(text, 1, start - 1) \o out \o SubSeq(text, end + 1, n))
    IN  IF n = 0 \/ box = {} THEN text
        ELSE IF rows = <<>> THEN text
        ELSE [i \in 1..Len(rebuilt) |->
                 IF i = Len(rebuilt) THEN RStrip(rebuilt[i]) ELSE rebuilt[i]]

\* The messages and replies _postprocess_reply is called on: a message with
\* no hint, one asking for a text fence, one asking for release notes.
MaxReplyLines == 2
ShapingMessages ==
    {Message,
     << <<"put it in a", SP, "text", SP, "code block">> >>,
     << <<"release notes", SP, "summary", SP, "item", SP, "risk", SP, "action">> >>}
ShapedReplyLines ==
    {<<"hi">>, <<"release notes">>, <<"Summary:", SP, "ok">>,
     <<"see the", SP, "release notes">>, EmptyLine}
ShapingReplies == UNION {[1..n -> ShapedReplyLines] : n \in 0..MaxReplyLines}

\* The texts _convert_box_table_to_markdown is called on: up to MaxTextLines
\* lines, each a table row of one or two cells, a table rule, a line of
\* text or a blank line.
MaxTextLines == 3
TextLines ==
    {<<BOX_BAR, SP, "a", SP, BOX_BAR>>,
     <<BOX_BAR, SP, "a", SP, BOX_BAR, SP, "b", SP, BOX_BAR>>,
     <<BOX_RULE>>, <<"x">>, EmptyLine}
Texts == UNION {[1..n -> TextLines] : n \in 0..MaxTextLines}

\* OpenCodeProjectSession.ensure_pane.  The session's data and what the
\* backend will answer during the call: which panes is_alive reports alive,
\* which pane find_pane_by_title_marker finds, what respawn_pane does.
PaneNames == {"%1", "%2", "main"}
StartsWithPercent(p) == p \in {"%1", "%2"}

EnsurePaneCalls ==
    [fn : {"ensure_pane"}, backend : BOOLEAN, terminal : {"tmux", "wezterm"},
     pane_id : {"", "%1"}, tmux_session : {"", "main"},
     pane_title_marker : {"", "CCB-opencode"}, start_cmd : {"", "opencode"},
     alive : SUBSET PaneNames, by_marker : {"", "%1", "%2"},
     respawn : {"revives", "stays dead", "raises"}]

\* What a call did: its return value, whether _write_back was called and
\* with which pane_id, the places it looked for a pane in the order it did,
\* and the panes is_alive answered True for.
EnsurePaneRet(ok, value, tried, reported, wrote) ==
    [returned |-> TRUE, ok |-> ok, value |-> value, tried |-> tried,
     reported |-> reported, wrote |-> wrote,
     written_pane_id |-> IF wrote THEN value ELSE ""]

\* The same call taking the pane the marker resolves to without asking
\* is_alive.
OpenCodeEnsurePaneTrusting(c) ==
    LET pane_id == IF c.pane_id # "" THEN c.pane_id
                   ELSE IF c.terminal = "tmux" THEN c.tmux_session ELSE ""
        t1 == IF pane_id # "" THEN <<"stored">> ELSE <<>>
        resolved == IF c.pane_title_marker # "" THEN c.by_marker ELSE ""
        t2 == IF c.pane_title_marker # "" THEN Append(t1, "marker") ELSE t1
        target == IF resolved # "" THEN resolved ELSE pane_id
    IN  IF ~c.backend
        THEN EnsurePaneRet(FALSE, "Terminal backend not available", <<>>, {}, FALSE)
        ELSE IF pane_id # "" /\ pane_id \in c.alive
        THEN EnsurePaneRet(TRUE, pane_id, t1, {pane_id}, FALSE)
        ELSE IF resolved # ""
        THEN EnsurePaneRet(TRUE, resolved, t2, {resolved} \cap c.alive, TRUE)
        ELSE IF c.terminal = "tmux" /\ c.start_cmd # ""
                /\ target # "" /\ StartsWithPercent(target)
        THEN IF c.respawn = "revives"
             THEN EnsurePaneRet(TRUE, target, Append(t2, "respawn"), {target}, TRUE)
             ELSE EnsurePaneRet(FALSE, "Pane not alive and respawn failed",
                                Append(t2, "respawn"), {}, FALSE)
        ELSE EnsurePaneRet(FALSE, "Pane not alive", t2, {}, FALSE)

\* ensure_pane: the stored pane_id (tmux_session on tmux when there is
\* none) if the backend reports it alive; else the pane the title marker
\* resolves to if alive, written back; else, on tmux with a start_cmd and a
\* target starting with "%", respawn_pane on the target (the marker's pane
\* or else the stored one), written back if the backend then reports it
\* alive.
OpenCodeEnsurePane(c) ==
    LET pane_id == IF c.pane_id # "" THEN c.pane_id
                   ELSE IF c.terminal = "tmux" THEN c.tmux_session ELSE ""
        t1 == IF pane_id # "" THEN <<"stored">> ELSE <<>>
        resolved == IF c.pane_title_marker # "" THEN c.by_marker ELSE ""
        t2 == IF c.pane_title_marker # "" THEN Append(t1, "marker") ELSE t1
        target == IF resolved # "" THEN resolved ELSE pane_id
    IN  IF ~c.backend
        THEN EnsurePaneRet(FALSE, "Terminal backend not available", <<>>, {}, FALSE)
        ELSE IF pane_id # "" /\ pane_id \in c.alive
        THEN EnsurePaneRet(TRUE, pane_id, t1, {pane_id}, FALSE)
        ELSE IF resolved # "" /\ resolved \in c.alive
        THEN EnsurePaneRet(TRUE, resolved, t2, {resolved}, TRUE)
        ELSE IF c.terminal = "tmux" /\ c.start_cmd # ""
                /\ target # "" /\ StartsWithPercent(target)
        THEN IF c.respawn = "revives"
             THEN EnsurePaneRet(TRUE, target, Append(t2, "respawn"), {target}, TRUE)
             ELSE EnsurePaneRet(FALSE, "Pane not alive and respawn failed",
                                Append(t2, "respawn"), {}, FALSE)
        ELSE EnsurePaneRet(FALSE, "Pane not alive", t2, {}, FALSE)

ApplyEnsurePane ==
    /\ fn_call.fn = "ensure_pane"
    /\ fn_ret = NoRet
    /\ fn_ret' = OpenCodeEnsurePane(fn_call)
    /\ UNCHANGED <<reqVars, response, poolVars, rdrVars, extVars, descVars, daemonVars, keyedVars, fn_call>>

\* The conversion applied to a text, and again to what it returned.
ApplyConvert ==
    /\ fn_call.fn = "_convert_box_table_to_markdown"
    /\ fn_ret = NoRet
    /\ LET once == ConvertBoxTableToMarkdown(fn_call.text)
       IN  fn_ret' = [returned |-> TRUE, once |-> once,
                      twice |-> ConvertBoxTableToMarkdown(once)]
    /\ UNCHANGED <<reqVars, response, poolVars, rdrVars, extVars, descVars, daemonVars, keyedVars, fn_call>>

ApplyPostprocess ==
    /\ fn_call.fn = "_postprocess_reply"
    /\ fn_ret = NoRet
    /\ fn_ret' = [returned |-> TRUE,
                  value |-> PostprocessReply(fn_call.message, fn_call.reply)]
    /\ UNCHANGED <<reqVars, response, poolVars, rdrVars, extVars, descVars, daemonVars, keyedVars, fn_call>>

(***************************************************************************)
(* The pool's workers by key                                               *)
(***************************************************************************)
\* The object factory(session_key) makes in the n-th call is object n.
\* A pool that makes and starts a worker in every call.
GetOrCreateAlways(key) ==
    /\ Len(goc_log) < MaxCalls
    /\ LET worker == Len(goc_log) + 1
       IN  /\ pool_workers' = [pool_workers EXCEPT ![key] = worker]
           /\ thread_starts' = [thread_starts EXCEPT ![worker] = @ + 1]
           /\ goc_log' = Append(goc_log, [key |-> key, worker |-> worker])
    /\ UNCHANGED <<reqVars, response, poolVars, rdrVars, extVars, descVars, fnVars, daemonVars>>

\* PerSessionWorkerPool.get_or_create(session_key, factory): the worker
\* stored under the key; without one, factory(session_key) is stored under
\* the key and started.
GetOrCreate(key) ==
    /\ Len(goc_log) < MaxCalls
    /\ LET created == pool_workers[key] = NoWorker
           worker == IF created THEN Len(goc_log) + 1 ELSE pool_workers[key]
       IN  /\ pool_workers' = [pool_workers EXCEPT ![key] = worker]
           /\ thread_starts' = IF created THEN [thread_starts EXCEPT ![worker] = @ + 1]
                                          ELSE thread_starts
           /\ goc_log' = Append(goc_log, [key |-> key, worker |-> worker])
    /\ UNCHANGED <<reqVars, response, poolVars, rdrVars, extVars, descVars, fnVars, daemonVars>>

(***************************************************************************)
(* The daemons' state file                                                 *)
(***************************************************************************)
\* A daemon starts serving: it writes its pid (and port, token) to the
\* state file, over whatever the file recorded.
DaemonStart(d) ==
    /\ daemons[d].pc = "off"
    /\ state_file' = d
    /\ daemons' = [daemons EXCEPT ![d].pc = "serving"]
    /\ UNCHANGED <<reqVars, response, poolVars, rdrVars, extVars, descVars, fnVars, keyedVars>>

\* _cleanup_state_file, first half: st = read_state(self.state_file)
CleanupRead(d) ==
    /\ daemons[d].pc = "serving"
    /\ daemons' = [daemons EXCEPT ![d] = [pc |-> "cleanup", st |-> state_file]]
    /\ UNCHANGED <<reqVars, response, poolVars, rdrVars, extVars, descVars, fnVars, keyedVars, state_file>>

\* _cleanup_state_file, second half: the file is unlinked if the state that
\* was read records this process's pid.
CleanupUnlink(d) ==
    /\ daemons[d].pc = "cleanup"
    /\ state_file' = IF daemons[d].st = d THEN NoPid ELSE state_file
    /\ daemons' = [daemons EXCEPT ![d] = [pc |-> "stopped", st |-> NoPid]]
    /\ UNCHANGED <<reqVars, response, poolVars, rdrVars, extVars, descVars, fnVars, keyedVars>>

(***************************************************************************)
(* Specifications                                                          *)
(***************************************************************************)
vars == <<reqVars, response, poolVars, rdrVars, auxVars>>

\* SpecLife: one request through either handler, from the worker's call to
\* the return.
InitLife ==
    /\ NoReaders
    /\ NoAux
    /\ InitRequest
    /\ response = NoResponse
    /\ descriptor = NoSession
    /\ InitPoolEmpty
    /\ flavor \in {"adapter", "laskd"}
    /\ env \in Envs
    /\ flavor = "laskd" => ~env.has_pane_log
    /\ ~env.has_pane_log => ~env.log_session
    /\ env.session # "ok" => ~env.has_pane_log
    /\ timeout_s \in Timeouts

HandlerStep ==
    \/ EarlyReturn \/ Inject
    \/ LogDeadline \/ LogPaneDied \/ LogInterrupted \/ LogPoll
    \/ PaneDeadline \/ PaneDied \/ PanePoll

NextLife ==
    \/ HandlerStep
    \/ Tick \/ PaneDies \/ ScreenChanges \/ LogAppend \/ PaneAppendReply
    \/ RpcTimeout \/ RpcRespond

SpecLife == InitLife /\ [][NextLife]_vars

\* SpecPane: the pane-log wait of the adapter, entered after a silent
\* structured window, in its last tick before the deadline; the pane is
\* alive (the next liveness probe is not due before the deadline) and shows
\* the echoed prompt, markers of this request and reply text.
\* SpecPaneIds: the same wait when the pane also shows lines that look like
\* markers.
InitPane ==
    /\ NoReaders
    /\ NoAux
    /\ flavor = "adapter"
    /\ env = [session |-> "ok", has_pane_log |-> TRUE, log_session |-> TRUE]
    /\ timeout_s = MaxTime
    /\ pc = "pane_wait"
    /\ now = MaxTime - 1
    /\ deadline = timeout_s
    /\ wait_deadline = LogWindowTicks
    /\ log_windowed = TRUE
    /\ pane_alive = TRUE
    /\ last_pane_check = LogWindowTicks
    /\ screen = <<>>
    /\ injected = 1
    /\ transcript = <<>>
    /\ log_offset = 0
    /\ ll = LogLocals(0, 0)
    /\ pane_file = <<>>
    /\ pane_offset = 0
    /\ lines = <<>>
    /\ ps = PaneLocals
    /\ idle_polls = 0
    /\ result = NoResult
    /\ response = NoResponse
    /\ descriptor = NoSession
    /\ InitPoolEmpty

NextPane == PaneDeadline \/ PanePoll \/ Tick \/ PaneEcho \/ PaneAppendLine

SpecPane == InitPane /\ [][NextPane]_vars

\* SpecPaneGate: the same wait when the pane shows the lines of the protocol
\* in any order, after the echoed prompt or without it.
NextPaneGate == PaneDeadline \/ PanePoll \/ Tick \/ PaneEcho \/ PaneAppendProtocol

SpecPaneGate == InitPane /\ [][NextPaneGate]_vars

NextPaneIds == PaneDeadline \/ PanePoll \/ Tick \/ PaneEcho \/ PaneAppendAny

SpecPaneIds == InitPane /\ [][NextPaneIds]_vars

\* SpecScreen: a request that gets no answer while the screen changes: the
\* adapter with a pane log and a bound transcript, and laskd.
InitScreen ==
    /\ InitLife
    /\ timeout_s = MaxTime - 2
    /\ env.session = "ok"
    /\ flavor = "adapter" => env.log_session

NextScreen ==
    \/ Inject
    \/ LogDeadline \/ LogInterrupted \/ LogPoll
    \/ PaneDeadline \/ PanePoll
    \/ Tick \/ PaneEcho \/ ScreenChangesAny

SpecScreen == InitScreen /\ [][NextScreen]_vars

\* SpecPool: requests submitted to laskd's worker pool while the project's
\* session descriptor changes.
InitPool ==
    /\ NoReaders
    /\ NoAux
    /\ InitRequest
    /\ flavor = "laskd"
    /\ env = [session |-> "ok", has_pane_log |-> FALSE, log_session |-> FALSE]
    /\ timeout_s = 0
    /\ response = NoResponse
    /\ descriptor \in Descriptors
    /\ InitPoolEmpty

NextPool ==
    \/ \E t \in Tasks : Submit(t)
    \/ \E k \in Keys : WorkerStart(k)
    \/ \E k \in Keys : WorkerFinish(k)
    \/ DescriptorChanges

SpecPool == InitPool /\ [][NextPool]_vars

\* SpecWorker: the workers of the pool handling tasks whose handler returns
\* or raises, under a session descriptor that stays as it is.
NextWorker ==
    \/ \E t \in Tasks : Submit(t)
    \/ \E k \in Keys : WorkerStart(k)
    \/ \E k \in Keys : WorkerFinish(k)
    \/ \E k \in Keys : WorkerRaise(k)

SpecWorker == InitPool /\ [][NextWorker]_vars

\* SpecReaders: a transcript reader polled while the file it reads is
\* written: the pane-log reader from a cursor captured by _pane_log_state,
\* or a CodexLogReader from the cursor capture_state gave, while Codex
\* writes messages, starts a new transcript or cuts the transcript.
InitReaders ==
    /\ InitRequest
    /\ flavor = "adapter"
    /\ env = [session |-> "ok", has_pane_log |-> TRUE, log_session |-> FALSE]
    /\ timeout_s = 0
    /\ response = NoResponse
    /\ descriptor = NoSession
    /\ InitPoolEmpty
    /\ NoAux
    /\ reader \in {"pane", "codex"}
    /\ truncated = FALSE
    /\ pane_out = <<>>
    /\ appended = <<>>
    /\ rs = NoCall
    /\ rnow = 0
    /\ delivered = <<>>
    /\ wbuf = <<>>
    /\ nmsgs = 0
    /\ torn = FALSE
    /\ \/ /\ reader = "pane"
          /\ \E old \in {<<>>, <<"o", NL>>, <<"o">>} :
                files = [p \in Paths |-> IF p = PaneLogPath THEN old ELSE Absent]
          /\ pane_cursor = PaneLogState(PaneLogPath)
          /\ preferred_log = NoPath
          /\ cursor = [log_path |-> NoPath, offset |-> 0]
       \/ /\ reader = "codex"
          /\ \E old \in {Absent, MetaLine} :
                files = [p \in Paths |-> IF p = OldLog THEN old ELSE Absent]
          /\ pane_cursor = [offset |-> 0, carry |-> <<>>]
          /\ preferred_log = ScanLatest
          /\ cursor = CaptureState

NextReaders ==
    \/ PaneLogPoll \/ PaneLogWrite \/ PaneLogTruncate
    \/ ReadSinceCall \/ ReadSinceNoLog \/ ReadSincePoll
    \/ WriterWrite \/ Rotate \/ RemoveOld \/ TruncateLog

SpecReaders == InitReaders /\ [][NextReaders]_vars

\* SpecDescriptor: two processes write the project's session descriptor
\* while it is read.
InitDescriptor ==
    /\ InitRequest
    /\ flavor = "laskd"
    /\ env = [session |-> "ok", has_pane_log |-> FALSE, log_session |-> FALSE]
    /\ timeout_s = 0
    /\ response = NoResponse
    /\ descriptor = NoSession
    /\ InitPoolEmpty
    /\ NoReaders
    /\ NoAux

NextDescriptor ==
    \/ \E w \in DescWriters : DescOpenTmp(w)
    \/ \E w \in DescWriters : DescWriteTmp(w)
    \/ \E w \in DescWriters : DescReplace(w)
    \/ DescRead

SpecDescriptor == InitDescriptor /\ [][NextDescriptor]_vars

\* SpecKeyed: get_or_create called with one key after another.
InitKeyed == InitDescriptor

NextKeyed == \E key \in WorkerKeys : GetOrCreate(key)

SpecKeyed == InitKeyed /\ [][NextKeyed]_vars

(***************************************************************************)
(* SessionRegistry: the monitor thread over one cached session             *)
(***************************************************************************)
MaxMonTicks == 34

CHECK_INTERVAL == 10
REFRESH_INTERVAL == 60
MAX_BACKOFF == 600
REMOVE_AFTER == 300

\* What one _check_one finds: whether the session file, the session and its
\* pane are all there, whether the session file's mtime moved, and what
\* _refresh_claude_log_binding returned.
CheckOutcomes == [ok : BOOLEAN, file_changed : BOOLEAN, updated : BOOLEAN]

\* register_session: a new entry, valid, checked now, no refresh planned.
RegisterSession ==
    /\ mon_entry' = [present |-> TRUE, valid |-> TRUE, last_check |-> mon_now,
                     next_bind_refresh |-> 0, bind_backoff_s |-> 0,
                     refreshed_at |-> None, changed |-> FALSE,
                     invalid_since |-> None]
    /\ UNCHANGED <<mon_now, mon_last_run>>
    /\ UNCHANGED <<reqVars, response, poolVars, rdrVars, descVars, fnVars, daemonVars, keyedVars, injVars, queueVars>>

\* invalidate: valid = False and nothing else.
Invalidate ==
    /\ mon_entry.present
    /\ mon_entry.valid
    /\ mon_entry' = [mon_entry EXCEPT !.valid = FALSE, !.invalid_since = mon_now]
    /\ UNCHANGED <<mon_now, mon_last_run>>
    /\ UNCHANGED <<reqVars, response, poolVars, rdrVars, descVars, fnVars, daemonVars, keyedVars, injVars, queueVars>>

\* The same check with the doubling left uncapped.
CheckOneUncapped(entry, t, o) ==
    IF ~o.ok
    THEN [entry EXCEPT !.valid = FALSE, !.last_check = t, !.invalid_since = t]
    ELSE IF ~(t >= entry.next_bind_refresh) /\ ~o.file_changed
    THEN [entry EXCEPT !.last_check = t]
    ELSE LET backoff == IF entry.bind_backoff_s # 0 THEN entry.bind_backoff_s
                        ELSE REFRESH_INTERVAL
             doubled == IF backoff * 2 >= REFRESH_INTERVAL THEN backoff * 2
                        ELSE REFRESH_INTERVAL
             b == IF o.updated THEN REFRESH_INTERVAL ELSE doubled
         IN  [entry EXCEPT !.bind_backoff_s = b, !.next_bind_refresh = t + b,
                           !.last_check = t, !.refreshed_at = t,
                           !.changed = o.updated]

\* _check_one on a valid entry.  A missing file, session or pane makes the
\* entry invalid and stamps last_check.  Otherwise the binding is refreshed
\* when the refresh is due or the session file changed:
\*   backoff = bind_backoff_s or refresh_interval_s
\*   bind_backoff_s = refresh_interval_s if updated
\*                    else min(600.0, max(refresh_interval_s, backoff * 2.0))
\*   next_bind_refresh = now + bind_backoff_s
\* and last_check is stamped either way.
CheckOne(entry, t, o) ==
    IF ~o.ok
    THEN [entry EXCEPT !.valid = FALSE, !.last_check = t, !.invalid_since = t]
    ELSE IF ~(t >= entry.next_bind_refresh) /\ ~o.file_changed
    THEN [entry EXCEPT !.last_check = t]
    ELSE LET backoff == IF entry.bind_backoff_s # 0 THEN entry.bind_backoff_s
                        ELSE REFRESH_INTERVAL
             doubled == IF backoff * 2 >= REFRESH_INTERVAL THEN backoff * 2
                        ELSE REFRESH_INTERVAL
             b == IF o.updated THEN REFRESH_INTERVAL ELSE Min(MAX_BACKOFF, doubled)
         IN  [entry EXCEPT !.bind_backoff_s = b, !.next_bind_refresh = t + b,
                           !.last_check = t, !.refreshed_at = t,
                           !.changed = o.updated]

\* _check_all_sessions: now is read once; every valid entry is checked; then
\* every entry with not valid and now - last_check > 300 is removed.
CheckAllSessions ==
    /\ mon_now - mon_last_run >= CHECK_INTERVAL
    /\ \E o \in CheckOutcomes :
         LET checked == IF mon_entry.present /\ mon_entry.valid
                        THEN CheckOne(mon_entry, mon_now, o)
                        ELSE mon_entry
         IN  mon_entry' = IF /\ checked.present
                             /\ ~checked.valid
                             /\ mon_now - checked.last_check > REMOVE_AFTER
                          THEN NoEntry
                          ELSE checked
    /\ mon_last_run' = mon_now
    /\ UNCHANGED mon_now
    /\ UNCHANGED <<reqVars, response, poolVars, rdrVars, descVars, fnVars, daemonVars, keyedVars, injVars, queueVars>>

\* Time passes.  _monitor_loop waits CHECK_INTERVAL after a pass before the
\* next one, and a pass takes time itself: the next pass comes one or two
\* intervals after the last.
MonitorTick ==
    /\ mon_now < MaxMonTicks * CHECK_INTERVAL
    /\ mon_now - mon_last_run < 2 * CHECK_INTERVAL
    /\ mon_now' = mon_now + CHECK_INTERVAL
    /\ UNCHANGED <<mon_last_run, mon_entry>>
    /\ UNCHANGED <<reqVars, response, poolVars, rdrVars, descVars, fnVars, daemonVars, keyedVars, injVars, queueVars>>

InitMonitor == InitDescriptor

NextMonitor ==
    \/ RegisterSession
    \/ Invalidate
    \/ CheckAllSessions
    \/ MonitorTick

SpecMonitor == InitMonitor /\ [][NextMonitor]_vars

(***************************************************************************)
(* The request paths from their cursors to the injection                   *)
(***************************************************************************)
MaxInjBytes == 3

InjectPaths == {"adapter", "laskd", "codex"}

\* The same paths sending the prompt first.
InjectStepsSendFirst(path) ==
    IF path = "adapter"
    THEN <<"send_text", "capture_state", "_pane_log_state">>
    ELSE <<"send_text", "capture_state">>

\* What a request path does between finding its session and waiting for
\* the reply, in the order of the code.  ClaudeAdapter.handle_task:
\* log_reader.capture_state(), _pane_log_state(pane_log_path),
\* backend.send_text.  laskd's _handle_task: log_reader.capture_state(),
\* backend.send_text.  CodexCommunicator._send_message:
\* self.log_reader.capture_state(), then the prompt goes to the pane or to
\* the bridge's FIFO.
InjectSteps(path) ==
    IF path = "adapter"
    THEN <<"capture_state", "_pane_log_state", "send_text">>
    ELSE <<"capture_state", "send_text">>

\* A request arrives on one of the paths.
InjectBegin ==
    /\ inj = NoInject
    /\ \E path \in InjectPaths : inj' = [inj EXCEPT !.path = path]
    /\ UNCHANGED <<inj_log, inj_pane>>
    /\ UNCHANGED <<reqVars, response, poolVars, rdrVars, descVars, fnVars, daemonVars, keyedVars, monVars, queueVars>>

\* The next step of the path.  capture_state and _pane_log_state record the
\* size of their file as the cursor's offset.
InjectStep ==
    /\ inj.path # "none"
    /\ inj.at < Len(InjectSteps(inj.path))
    /\ LET step == InjectSteps(inj.path)[inj.at + 1]
       IN  inj' = [inj EXCEPT
                     !.at = @ + 1,
                     !.state = IF step = "capture_state" THEN Len(inj_log) ELSE @,
                     !.pane_state = IF step = "_pane_log_state" THEN Len(inj_pane) ELSE @,
                     !.sent = IF step = "send_text" THEN @ + 1 ELSE @]
    /\ UNCHANGED <<inj_log, inj_pane>>
    /\ UNCHANGED <<reqVars, response, poolVars, rdrVars, descVars, fnVars, daemonVars, keyedVars, monVars, queueVars>>

\* The CLI in the pane writes to its transcript: what it writes once the
\* prompt has been sent is caused by the prompt, what it writes before is
\* not.
InjectLogWrite ==
    /\ Len(inj_log) < MaxInjBytes
    /\ inj_log' = Append(inj_log, IF inj.sent > 0 THEN "reply" ELSE "old")
    /\ UNCHANGED <<inj, inj_pane>>
    /\ UNCHANGED <<reqVars, response, poolVars, rdrVars, descVars, fnVars, daemonVars, keyedVars, monVars, queueVars>>

\* The terminal appends what the pane shows to the pane log.
InjectPaneWrite ==
    /\ Len(inj_pane) < MaxInjBytes
    /\ inj_pane' = Append(inj_pane, IF inj.sent > 0 THEN "reply" ELSE "old")
    /\ UNCHANGED <<inj, inj_log>>
    /\ UNCHANGED <<reqVars, response, poolVars, rdrVars, descVars, fnVars, daemonVars, keyedVars, monVars, queueVars>>

InitInject == InitDescriptor

NextInject ==
    \/ InjectBegin
    \/ InjectStep
    \/ InjectLogWrite
    \/ InjectPaneWrite

SpecInject == InitInject /\ [][NextInject]_vars

(***************************************************************************)
(* A session worker's queue and the RPC handlers waiting on it             *)
(***************************************************************************)
\* In ticks of 5 s.
MaxQTicks == 5
QSlackTicks == 1        \* 5.0 s

QTimeouts == {1, 3}

\* _handle_request: pool.submit(req) enqueues the task under its session's
\* worker, and the handler waits on task.done_event for timeout_s + 5.0 s.
\* The tasks are numbered in the order of their submission.
QSubmit(t) ==
    /\ q_tasks[t].at = "new"
    /\ \A u \in 1..(t - 1) : q_tasks[u].at # "new"
    /\ \E timeout \in QTimeouts :
         q_tasks' = [q_tasks EXCEPT
                       ![t] = [@ EXCEPT !.at = "queued", !.timeout_s = timeout,
                                        !.submitted_at = q_now, !.rpc = "waiting"]]
    /\ q_queue' = Append(q_queue, t)
    /\ UNCHANGED q_now
    /\ UNCHANGED <<reqVars, response, poolVars, rdrVars, descVars, fnVars, daemonVars, keyedVars, monVars, injVars>>

\* done_event.wait(timeout=wait_timeout) returns with task.result None: the
\* handler answers exit_code 2 and is gone; the task is left where it is.
QRpcTimeout(t) ==
    /\ q_tasks[t].rpc = "waiting"
    /\ q_tasks[t].results = 0
    /\ q_now >= q_tasks[t].submitted_at + q_tasks[t].timeout_s + QSlackTicks
    /\ q_tasks' = [q_tasks EXCEPT ![t] = [@ EXCEPT !.rpc = "timed out"]]
    /\ UNCHANGED <<q_now, q_queue>>
    /\ UNCHANGED <<reqVars, response, poolVars, rdrVars, descVars, fnVars, daemonVars, keyedVars, monVars, injVars>>

\* done_event is set while the handler waits: it answers with the result.
QRpcRespond(t) ==
    /\ q_tasks[t].rpc = "waiting"
    /\ q_tasks[t].results > 0
    /\ q_tasks' = [q_tasks EXCEPT ![t] = [@ EXCEPT !.rpc = "answered"]]
    /\ UNCHANGED <<q_now, q_queue>>
    /\ UNCHANGED <<reqVars, response, poolVars, rdrVars, descVars, fnVars, daemonVars, keyedVars, monVars, injVars>>

\* The same step with the deadline counted from the submission.
QTakeFromSubmission ==
    /\ \A t \in QTasks : q_tasks[t].at # "handling"
    /\ q_queue # <<>>
    /\ LET t == Head(q_queue)
       IN  \E usable \in BOOLEAN :
             q_tasks' = [q_tasks EXCEPT
                ![t] = IF usable
                       THEN [@ EXCEPT !.at = "handling", !.started_at = q_now,
                                      !.injections = @ + 1,
                                      !.deadline = q_tasks[t].submitted_at + q_tasks[t].timeout_s]
                       ELSE [@ EXCEPT !.at = "done", !.started_at = q_now,
                                      !.results = @ + 1]]
    /\ q_queue' = Tail(q_queue)
    /\ UNCHANGED q_now
    /\ UNCHANGED <<reqVars, response, poolVars, rdrVars, descVars, fnVars, daemonVars, keyedVars, monVars, injVars>>

\* The worker takes the task at the head of its queue and calls
\* _handle_task.  Without a usable session, pane or backend the handler
\* returns at once and the worker sets the result.  Otherwise:
\*   backend.send_text(pane_id, prompt)
\*   deadline = None if timeout_s < 0 else time.time() + timeout_s
QTake ==
    /\ \A t \in QTasks : q_tasks[t].at # "handling"
    /\ q_queue # <<>>
    /\ LET t == Head(q_queue)
       IN  \E usable \in BOOLEAN :
             q_tasks' = [q_tasks EXCEPT
                ![t] = IF usable
                       THEN [@ EXCEPT !.at = "handling", !.started_at = q_now,
                                      !.injections = @ + 1,
                                      !.deadline = q_now + q_tasks[t].timeout_s]
                       ELSE [@ EXCEPT !.at = "done", !.started_at = q_now,
                                      !.results = @ + 1]]
    /\ q_queue' = Tail(q_queue)
    /\ UNCHANGED q_now
    /\ UNCHANGED <<reqVars, response, poolVars, rdrVars, descVars, fnVars, daemonVars, keyedVars, monVars, injVars>>

\* _handle_task returns, with DONE or at its deadline; the worker sets
\* task.result and the done_event.
QFinish(t) ==
    /\ q_tasks[t].at = "handling"
    /\ q_tasks' = [q_tasks EXCEPT ![t] = [@ EXCEPT !.at = "done", !.results = @ + 1]]
    /\ UNCHANGED <<q_now, q_queue>>
    /\ UNCHANGED <<reqVars, response, poolVars, rdrVars, descVars, fnVars, daemonVars, keyedVars, monVars, injVars>>

\* Time passes.  A handler does not wait beyond its deadline; the worker,
\* blocked on its queue, takes a task as soon as it is idle; an RPC handler,
\* blocked on done_event.wait, answers as soon as the event is set or its
\* wait has timed out.
QTick ==
    /\ q_now < MaxQTicks
    /\ \A t \in QTasks : q_tasks[t].at = "handling" => q_now < q_tasks[t].deadline
    /\ q_queue # <<>> => \E t \in QTasks : q_tasks[t].at = "handling"
    /\ \A t \in QTasks :
          q_tasks[t].rpc = "waiting" =>
             /\ q_tasks[t].results = 0
             /\ q_now < q_tasks[t].submitted_at + q_tasks[t].timeout_s + QSlackTicks
    /\ q_now' = q_now + 1
    /\ UNCHANGED <<q_tasks, q_queue>>
    /\ UNCHANGED <<reqVars, response, poolVars, rdrVars, descVars, fnVars, daemonVars, keyedVars, monVars, injVars>>

InitQueue == InitDescriptor

NextQueue ==
    \/ \E t \in QTasks : QSubmit(t)
    \/ \E t \in QTasks : QRpcTimeout(t)
    \/ \E t \in QTasks : QRpcRespond(t)
    \/ QTake
    \/ \E t \in QTasks : QFinish(t)
    \/ QTick

SpecQueue == InitQueue /\ [][NextQueue]_vars

\* SpecFunctions: one call of a function on each of its arguments.
InitFunctions ==
    /\ InitRequest
    /\ flavor = "adapter"
    /\ env = [session |-> "ok", has_pane_log |-> FALSE, log_session |-> FALSE]
    /\ timeout_s = 0
    /\ response = NoResponse
    /\ descriptor = NoSession
    /\ InitPoolEmpty
    /\ NoReaders
    /\ DescriptorAtRest
    /\ NoDaemons
    /\ NoKeyedWorkers
    /\ NoExt
    /\ fn_ret = NoRet
    /\ \/ \E b \in Bindings :
             fn_call = [fn |-> "_refresh_claude_log_binding", arg |-> b]
       \/ \E m \in ShapingMessages, r \in ShapingReplies :
             fn_call = [fn |-> "_postprocess_reply", message |-> m, reply |-> r]
       \/ \E t \in Texts :
             fn_call = [fn |-> "_convert_box_table_to_markdown", text |-> t]
       \/ fn_call \in EnsurePaneCalls

NextFunctions ==
    \/ ApplyRefresh
    \/ ApplyPostprocess
    \/ ApplyConvert
    \/ ApplyEnsurePane

SpecFunctions == InitFunctions /\ [][NextFunctions]_vars

\* SpecRpc: one message to laskd's request handler, well-formed or not,
\* up to the handler's response.
InitRpc ==
    /\ InitLife
    /\ flavor = "laskd"

NextRpc ==
    \/ EarlyReturn \/ Inject
    \/ LogDeadline \/ LogPaneDied \/ LogInterrupted \/ LogPoll
    \/ Tick \/ PaneDies \/ ScreenChanges \/ LogAppend
    \/ RpcTimeout \/ RpcRespond \/ RpcBadRequest

SpecRpc == InitRpc /\ [][NextRpc]_vars

\* SpecDaemons: daemons that start on the same state file and stop.
InitDaemons ==
    /\ InitDescriptor

NextDaemons ==
    \/ \E d \in Daemons : DaemonStart(d)
    \/ \E d \in Daemons : CleanupRead(d)
    \/ \E d \in Daemons : CleanupUnlink(d)

SpecDaemons == InitDaemons /\ [][NextDaemons]_vars

(***************************************************************************)
(* Properties of the worker pool (SpecPool)                                *)
(***************************************************************************)
\* C1: at most one task at a time is between the injection of its prompt
\* and the setting of its result for any given pane.
C1_OneTaskPerPane ==
    \A t1, t2 \in Tasks :
        (t1 # t2 /\ task_state[t1] = "injected" /\ task_state[t2] = "injected")
            => task_pane[t1] # task_pane[t2]

\* C2: under one session key the worker starts the tasks in the order they
\* were enqueued, and every task started before the last started one has
\* its result set.
C2_PerSessionFifo ==
    \A k \in Keys :
        /\ Len(started[k]) <= Len(enqueued[k])
        /\ \A i \in 1..Len(started[k]) : started[k][i] = enqueued[k][i]
        /\ \A i \in 1..(Len(started[k]) - 1) : task_state[started[k][i]] = "done"
        /\ current[k] # NoTask => current[k] = started[k][Len(started[k])]

\* Two tasks of one key have been started while a task of another key is
\* being handled.
C2_Witness ==
    \E k1, k2 \in Keys :
        /\ k1 # k2
        /\ Len(started[k1]) >= 2
        /\ current[k2] # NoTask

\* C11: a task a worker has taken is being handled or has its completion
\* signal set; the signal is set exactly when the result is not null, and
\* the result carries the task's req_id; the result of a task whose handler
\* raised is that of _handle_exception, exit_code 1 with the exception's
\* text and done_seen = false; and a worker that is not handling a task is
\* alive to take the next one of its queue.
C11_ResultAlwaysSet ==
    /\ \A t \in Tasks :
           /\ task_state[t] = "done" <=> task_result[t] # NoTaskResult
           /\ task_state[t] = "done" => task_result[t].req_id = t
           /\ task_result[t].reply = "boom"
                => (task_result[t].exit_code = 1 /\ ~task_result[t].done_seen)
    /\ \A k \in Keys :
           /\ \A i \in 1..Len(started[k]) :
                  task_state[started[k][i]] = "done" \/ current[k] = started[k][i]
           /\ queue[k] # <<>> => k \in workers

\* A task's handler raised, and the same worker went on to complete the
\* next task of its queue.
C11_Witness ==
    \E k \in Keys :
        /\ Len(started[k]) >= 2
        /\ task_result[started[k][1]].reply = "boom"
        /\ task_result[started[k][2]].reply = "returned"

(***************************************************************************)
(* Properties of the request lifecycle (SpecLife)                          *)
(***************************************************************************)
FatalCauses == {"none", "nopane", "nobackend", "pane_died", "interrupted"}

\* C3: a returned result has exit_code 0, 1 or 2; 0 exactly when DONE was
\* accepted, 2 exactly when the loop left on its deadline check without
\* DONE (and then the deadline has passed), 1 exactly for the fatal
\* outcomes, which carry done_seen = false.
C3_ExitCodes ==
    Returned =>
        /\ result.exit_code \in {0, 1, 2}
        /\ result.exit_code = 0 <=> result.done_seen
        /\ result.exit_code = 2 <=> (result.cause = "deadline" /\ ~result.done_seen)
        /\ result.cause = "deadline" => (deadline # None /\ now >= deadline)
        /\ result.exit_code = 1 <=> result.cause \in FatalCauses
        /\ result.cause \in FatalCauses => ~result.done_seen

\* The adapter returns DONE from the pane log after the structured window
\* has passed in silence.
C3_Witness ==
    /\ Returned
    /\ flavor = "adapter"
    /\ log_windowed
    /\ result.exit_code = 0
    /\ result.pane_read > 0

\* C12: when a liveness probe that is due reports the pane dead (or
\* raises), the handler's step returns at once with exit_code 1,
\* done_seen = false and a reply reporting that the pane died, keeping the
\* anchor_seen observed so far in the request and processing no reader
\* event; a probe runs only when the pane-check interval has elapsed.
C12_PaneDeathAborts ==
    /\ [][(Waiting /\ ~LoopDeadlinePassed /\ PaneCheckDue /\ ~pane_alive /\ HandlerStep)
            => /\ Returned'
               /\ result'.cause = "pane_died"
               /\ result'.anchor_seen = (ll.anchor_seen \/ ps.anchor_seen)
               /\ result'.pane_read = 0]_vars
    /\ []((Returned /\ result.cause = "pane_died")
            => /\ result.exit_code = 1
               /\ ~result.done_seen
               /\ result.reply = << <<"pane died">> >>
               /\ ~pane_alive
               /\ now - last_pane_check >= PaneCheckTicks)

\* The interrupt notice is on the screen after the request's id, or with
\* the request's id not on the screen.
InterruptShown(text) ==
    /\ \E i \in 1..Len(text) : text[i] = "int"
    /\ \/ \A j \in 1..Len(text) : text[j] # "req"
       \/ \E j, i \in 1..Len(text) : j < i /\ text[j] = "req" /\ text[i] = "int"

\* C13: when the screen shows the interrupt notice after the request's id,
\* or without the request's id, the handler's step that follows a live
\* probe returns with exit_code 1 and done_seen = false; a request returns
\* as interrupted only then.
C13_InterruptAborts ==
    /\ [][(Waiting /\ ~LoopDeadlinePassed /\ PaneCheckDue /\ pane_alive
              /\ InterruptShown(screen) /\ HandlerStep)
            => (Returned' /\ result'.exit_code = 1 /\ ~result'.done_seen)]_vars
    /\ []((Returned /\ result.cause = "interrupted")
            => (result.exit_code = 1 /\ ~result.done_seen /\ InterruptShown(screen)))

\* C14: without a session descriptor, without a pane or without a terminal
\* backend the request returns exit_code 1 with done_seen = false and a
\* diagnostic reply, and nothing is injected: no send_text, no deadline, no
\* reader cursor, no wait.
C14_EarlyReturns ==
    env.session # "ok" =>
        /\ pc \in {"start", "returned"}
        /\ injected = 0
        /\ deadline = None
        /\ log_offset = 0 /\ pane_offset = 0 /\ lines = <<>>
        /\ Returned => /\ result.exit_code = 1
                       /\ ~result.done_seen
                       /\ result.cause = env.session
                       /\ result.reply = << <<env.session>> >>

\* laskd has returned for a session whose pane is not available.
C14_Witness == Returned /\ flavor = "laskd" /\ env.session = "nopane" /\ injected = 0

\* C15: every request the adapter has handled, whatever its outcome, has
\* emitted exactly one completion notification, which carries the
\* request's req_id and the reply that is returned.
C15_OneNotification ==
    (Returned /\ flavor = "adapter")
        => result.notified = << <<TaskReqId, result.reply>> >>

\* C28: every result with done_seen = true has anchor_seen = true: the
\* request's anchor was observed before the DONE that completed it, in the
\* structured path and in the pane-log path.
C28_DoneAfterAnchor ==
    (Returned /\ result.done_seen) => result.anchor_seen

C30_RebindOnceReported ==
    /\ [][ll.rebounded => ll'.rebounded]_vars
    /\ [][(~ll.rebounded /\ ll'.rebounded)
            => (pc = "log_wait" /\ ~ll.anchor_seen /\ now >= AnchorGraceTicks)]_vars
    /\ []((Returned /\ ll.rebounded) => result.fallback_scan)

\* C31: an assistant event the structured wait processed while the anchor
\* was unseen and the anchor-collect grace had not expired is never among
\* the accumulated chunks afterwards.
C31_DroppedStaysDropped ==
    pc = "log_wait" => \A i \in 1..Len(ll.chunk_at) : ll.chunk_at[i] \notin ll.dropped

\* C37: no chunk the structured wait has accumulated, the text it tests
\* for DONE and builds the reply from, is an assistant event that stands
\* before the request's anchor in the transcript.
C37_NoTextBeforeAnchor ==
    \A i \in 1..Len(ll.chunk_at), j \in 1..Len(transcript) :
        (/\ transcript[j].role = "user"
         /\ \E k \in 1..Len(transcript[j].text) :
               Contains(transcript[j].text[k], Marker(REQ_ID_PREFIX, TaskReqId)))
            => j < ll.chunk_at[i]

\* C39: the result handle_task returns has anchor_seen set whenever the
\* structured wait or the pane wait observed the request's anchor.
C39_AnchorReported ==
    (Returned /\ flavor = "adapter" /\ (ll.anchor_seen \/ ps.anchor_seen))
        => result.anchor_seen

\* C4 as stated: a request with timeout_s >= 0 whose prompt was injected
\* and that returns without DONE while the pane is alive returns after
\* the deadline with exit_code 2.
C4_Original ==
    (Returned /\ injected > 0 /\ timeout_s >= 0 /\ ~result.done_seen /\ pane_alive)
        => (result.exit_code = 2 /\ now >= deadline)

\* C4, amended: a request with timeout_s >= 0 whose prompt was injected
\* has a deadline, start + timeout_s, that the structured wait's own
\* deadline never exceeds; once it has passed, the check at the top of the
\* loop holds and the handler's next step returns, with exit_code 2 and
\* done_seen = false; and a request that returned without DONE while the
\* pane was alive and no interrupt was detected returned that way.
C4_DeadlineReturn ==
    /\ []((Waiting /\ timeout_s >= 0)
            => /\ deadline = timeout_s
               /\ pc = "log_wait" => (wait_deadline # None /\ wait_deadline <= deadline)
               /\ now >= deadline
                    => IF pc = "log_wait" THEN LogDeadlinePassed ELSE PaneDeadlinePassed)
    /\ [][(Waiting /\ timeout_s >= 0 /\ now >= deadline /\ HandlerStep)
            => (Returned' /\ result'.exit_code = 2 /\ ~result'.done_seen)]_vars
    /\ []((Returned /\ injected > 0 /\ timeout_s >= 0 /\ ~result.done_seen /\ pane_alive
             /\ result.cause # "interrupted")
            => (result.exit_code = 2 /\ deadline # None /\ now >= deadline))

\* The deadline ends the pane wait that followed a silent structured window.
C4_Witness ==
    /\ Returned
    /\ timeout_s >= 0
    /\ log_windowed
    /\ pane_alive
    /\ result.cause = "deadline"
    /\ result.pane_read > 0
    /\ now >= deadline

\* C5: with timeout_s < 0 there is no deadline; the request ends only with
\* DONE or a fatal outcome, never with exit_code 2, and laskd answers only
\* once the result is set.
C5_NoDeadline ==
    timeout_s < 0 =>
        /\ pc # "start" => deadline = None
        /\ Returned => /\ result.exit_code \in {0, 1}
                       /\ result.cause \in FatalCauses \cup {"done"}
        /\ response # NoResponse => (Returned /\ response.exit_code = result.exit_code)

\* Without a deadline the request is still pending when the clock stops.
C5_Witness ==
    /\ timeout_s < 0
    /\ Waiting
    /\ now = MaxTime
    /\ response = NoResponse

(***************************************************************************)
(* Properties of the pane-log wait (SpecPane, SpecPaneIds)                 *)
(***************************************************************************)
\* The request has returned after reading the pane log to its end.
AllRead == Returned /\ result.pane_read = Len(pane_file)

\* Reply content: one or more lines of text.
IsContent(ls) == ls # <<>> /\ \A i \in 1..Len(ls) : ls[i] = Hello

\* The pane log is the echoed prompt, then BEGIN, content and DONE.
EchoBeginContentDone ==
    /\ HasEcho(pane_file)
    /\ LET rest == AfterEcho(pane_file)
       IN  /\ Len(rest) >= 3
           /\ Head(rest) = BeginLine
           /\ rest[Len(rest)] = DoneLine
           /\ IsContent(SubSeq(rest, 2, Len(rest) - 1))

\* C6: when the pane shows the echoed prompt and then BEGIN, content and a
\* second DONE, the DONE of the echo is consumed as prompt echo and the
\* request completes with exit_code 0 and the content as its reply.
C6_EchoThenReply ==
    (AllRead /\ EchoBeginContentDone)
        => /\ result.echo_src = DoneLine
           /\ result.exit_code = 0
           /\ result.reply = SubSeq(AfterEcho(pane_file), 2, Len(AfterEcho(pane_file)) - 1)

\* The pane log is the echoed prompt, then content and DONE.
EchoContentDone ==
    /\ HasEcho(pane_file)
    /\ LET rest == AfterEcho(pane_file)
       IN  /\ Len(rest) >= 2
           /\ rest[Len(rest)] = DoneLine
           /\ IsContent(SubSeq(rest, 1, Len(rest) - 1))

\* C7 as stated: when the pane log is the echoed prompt followed only by
\* content and one DONE line, the request completes with exit_code 0 and
\* the content as its reply.
C7_Original ==
    (AllRead /\ EchoContentDone)
        => /\ result.exit_code = 0
           /\ result.done_seen
           /\ result.reply = SubSeq(AfterEcho(pane_file), 1, Len(AfterEcho(pane_file)) - 1)

\* C7, amended: when the pane log is the echoed prompt followed only by
\* content and one DONE line, the DONE of the echo is consumed as prompt
\* echo, the final DONE is not accepted for want of a BEGIN line after the
\* echo, and the request ends on its deadline with exit_code 2,
\* done_seen = false and an empty reply.
C7_EchoWithoutBegin ==
    (Returned /\ EchoContentDone)
        => /\ result.cause = "deadline"
           /\ result.exit_code = 2
           /\ ~result.done_seen
           /\ result.reply = <<>>
           /\ result.pane_read >= Len(EchoedPrompt) => result.echo_src = DoneLine

C7_Witness == AllRead /\ EchoContentDone

\* After the echoed prompt, if any, the pane log is BEGIN and then DONE.
BeginThenDone == AfterEcho(pane_file) = <<BeginLine, DoneLine>>

\* C8 as stated: when the accepted BEGIN is immediately followed by DONE,
\* the request completes with done_seen = true, exit_code 0 and an empty
\* reply.
C8_Original ==
    (AllRead /\ BeginThenDone)
        => (result.done_seen /\ result.exit_code = 0 /\ result.reply = <<>>)

\* C8, amended: when the accepted BEGIN is immediately followed by DONE,
\* the DONE is not accepted, no reply line having been seen; the request
\* ends on its deadline with exit_code 2, done_seen = false and an empty
\* reply.
C8_DoneNeedsResponse ==
    (Returned /\ BeginThenDone)
        => /\ result.cause = "deadline"
           /\ result.exit_code = 2
           /\ ~result.done_seen
           /\ result.reply = <<>>

C8_Witness == AllRead /\ BeginThenDone

\* The line matches the DONE pattern of another request.
CarriesOtherDone(line) == \E b \in OtherIds : DoneLineRe(b, CleanLine(line))

\* C9: a line carrying the DONE marker of another request is never
\* consumed as the prompt-echo DONE, never completes the request and is
\* never the line from which the reply extraction walks backward.
C9_OtherDoneIgnored ==
    /\ ~CarriesOtherDone(ps.echo_src)
    /\ Returned => /\ ~CarriesOtherDone(result.echo_src)
                   /\ ~CarriesOtherDone(result.done_src)
                   /\ ~CarriesOtherDone(result.anchor_src)

\* C10: no line of the reply of a request that ended with exit_code 0
\* matches the REQ_ID, BEGIN or DONE pattern of its own req_id.
C10_NoMarkerInReply ==
    (Returned /\ result.exit_code = 0)
        => \A i \in 1..Len(result.reply) :
               /\ ~MarkerLineRe(REQ_ID_PREFIX, TaskReqId, result.reply[i])
               /\ ~MarkerLineRe(BEGIN_PREFIX, TaskReqId, result.reply[i])
               /\ ~DoneLineRe(TaskReqId, result.reply[i])

\* C23: every response of laskd's request handler, for a completed task,
\* for a malformed request and for a task without a result when the wait
\* ends, is a lask.response with type, v, id, req_id, exit_code, reply and
\* meta; a request is answered once.
C23_WellFormedResponse ==
    /\ response # NoResponse =>
          /\ DOMAIN response = {"type", "v", "id", "req_id", "exit_code", "reply", "meta"}
          /\ response.type = "lask.response"
          /\ response.v = 1

(***************************************************************************)
(* Properties of the transcript readers (SpecReaders)                      *)
(***************************************************************************)
\* The complete lines of a run of bytes, "\r" counted as a line break: the
\* pieces between the line breaks, without the unterminated last piece.
CompleteLines(bytes) ==
    LET buf == [i \in 1..Len(bytes) |-> IF bytes[i] = CR THEN NL ELSE bytes[i]]
        split == SplitNewlines(buf)
    IN  SubSeq(split, 1, Len(split) - 1)

\* The unterminated last piece of a run of bytes.
TrailingFragment(bytes) ==
    LET buf == [i \in 1..Len(bytes) |-> IF bytes[i] = CR THEN NL ELSE bytes[i]]
        split == SplitNewlines(buf)
    IN  split[Len(split)]

\* C16: while the pane log is never truncated below the offset, the lines
\* the successive polls of _read_pane_log have returned are, in order, with
\* no duplicate and no gap, exactly the complete lines of the bytes appended
\* after the captured cursor and read so far ("\r" is a line break), and the
\* unterminated rest of those bytes is held in carry.
C16_PaneLogLines ==
    (reader = "pane" /\ ~truncated) =>
        LET base == Size(PaneLogPath) - Len(appended)
            read == SubSeq(appended, 1, pane_cursor.offset - base)
        IN  /\ pane_out = CompleteLines(read)
            /\ pane_cursor.carry = TrailingFragment(read)

\* The messages of the complete JSONL lines among some bytes, in file order.
MessagesOf(bytes) ==
    LET split == SplitNewlines(bytes)
        texts == [i \in 1..(Len(split) - 1) |-> ExtractMessage(split[i])]
    IN  SelectSeq(texts, LAMBDA m : m # NoMsg)

\* The reader is between two calls and still bound to the transcript it was
\* created on, which was neither replaced nor cut.
BoundToOldLog ==
    /\ reader = "codex"
    /\ ~rs.active
    /\ Exists(OldLog) /\ ~Exists(NewLog) /\ ~truncated
    /\ cursor.log_path = OldLog

\* C17: whatever the writer's writes of a JSONL line and the reader's polls
\* interleave to, the cursor of CodexLogReader never stands inside a line
\* (an unterminated trailing line is not consumed), and the messages
\* returned so far are exactly, once each and in order, the messages of the
\* lines the cursor has passed since capture_state.
C17_PartialWrites ==
    BoundToOldLog =>
        /\ cursor.offset = 0 \/ files[OldLog][cursor.offset] = NL
        /\ delivered = MessagesOf(SubSeq(files[OldLog], Len(MetaLine) + 1, cursor.offset))

\* ls ends with suffix
EndsWith(ls, suffix) ==
    /\ Len(suffix) <= Len(ls)
    /\ SubSeq(ls, Len(ls) - Len(suffix) + 1, Len(ls)) = suffix

\* C18: once CodexLogReader has handed back a cursor on the transcript that
\* replaced the one it was bound to, no message of the new transcript lies
\* before that cursor unreturned: the messages written to the new
\* transcript up to the cursor are the last ones returned, in file order.
\* (Lines written in one write each, transcripts never cut.)
C18_RotationKeepsNew ==
    (/\ reader = "codex" /\ ~rs.active
     /\ ~truncated /\ ~torn
     /\ Exists(NewLog) /\ cursor.log_path = NewLog) =>
        EndsWith(delivered,
                 MessagesOf(SubSeq(files[NewLog], 1, Min(cursor.offset, Size(NewLog)))))

\* C32: a turn of _read_since that reads a log other than the one the
\* caller's cursor was captured on, with the cursor's offset not yet
\* replaced, returns no message: what the new log holds at the switch was
\* there before it, and the log is read from its size.
C32_SwitchReadsFromSize ==
    [][(/\ ReadSincePoll
        /\ rs.current_path # NoPath
        /\ rs.current_path = cursor.log_path /\ rs.offset = cursor.offset
        /\ EnsureLog(rs.current_path) # rs.current_path)
            => delivered' = delivered]_vars

\* The lines of ls that are not empty
NonEmptyLines(ls) == SelectSeq(ls, LAMBDA l : l # <<>>)

\* C19: a poll that finds the bound file shorter than the cursor's offset
\* starts again at offset 0 with an empty carry, so that what the file holds
\* since the truncation is delivered.  For _read_pane_log: the cursor ends
\* at the end of the file, carry is the unterminated rest of the file, and
\* the poll returns the file's complete lines.  For CodexLogReader: after
\* the turn in which the lines are read the offset lies within the file.
C19_TruncationResets ==
    [][/\ (reader = "pane" /\ Size(PaneLogPath) < pane_cursor.offset /\ PaneLogPoll) =>
            /\ pane_cursor' = [offset |-> Size(PaneLogPath),
                               carry |-> TrailingFragment(files[PaneLogPath])]
            /\ NonEmptyLines(SubSeq(pane_out', Len(pane_out) + 1, Len(pane_out')))
                   = NonEmptyLines(CompleteLines(files[PaneLogPath]))
       /\ (/\ reader = "codex" /\ rs.active
           /\ EnsureLog(rs.current_path) # NoPath
           /\ Size(EnsureLog(rs.current_path)) < rs.offset
           /\ ~(rs.block /\ rnow >= rs.deadline)
           /\ ReadSincePoll) =>
            IF rs'.active THEN rs'.offset <= Size(rs'.current_path)
            ELSE cursor'.offset <= Size(cursor'.log_path)
      ]_vars

\* C20: wait_for_message with a finite timeout is never still running when
\* its deadline has passed, whatever the files are, also when there is no
\* transcript at all: it has returned, with a message or with None and a
\* cursor, by the poll that reaches the deadline.
C20_WaitReturns ==
    (reader = "codex" /\ rs.active /\ rs.block) => rnow <= rs.deadline

(***************************************************************************)
(* Properties of the shared files                                          *)
(***************************************************************************)
\* C21: whatever writes of the session descriptor run beside it, a read of
\* the descriptor returns the complete contents from before the writes or
\* the complete contents of one write, never a partial or mixed file.
C21_DescriptorNeverPartial ==
    dseen \in {OldContents} \cup Payloads

\* C24: a stopping daemon unlinks the state file only when the file records
\* its own pid at that moment: the state file another daemon has written is
\* never deleted, however the daemons' writes fall between the read and
\* the unlink of the cleanup.
C24_OnlyOwnStateFileDeleted ==
    [][\A d \in Daemons :
          (CleanupUnlink(d) /\ state_file # NoPid /\ state_file' = NoPid) =>
              state_file = d]_vars

(***************************************************************************)
(* Properties of the pool's workers by key                                 *)
(***************************************************************************)
\* C25: over any sequence of get_or_create calls, two calls return the same
\* worker exactly when they were given the same key, and every worker
\* returned has been started exactly once.
C25_OneWorkerPerKey ==
    /\ \A i, j \in 1..Len(goc_log) :
          (goc_log[i].key = goc_log[j].key) <=> (goc_log[i].worker = goc_log[j].worker)
    /\ \A i \in 1..Len(goc_log) : thread_starts[goc_log[i].worker] = 1

\* The calls of the test and one more: a key, the same key, another key,
\* the first key again.
C25_Witness ==
    /\ Len(goc_log) = 4
    /\ goc_log[1].key = "k1" /\ goc_log[2].key = "k1"
    /\ goc_log[3].key = "k2" /\ goc_log[4].key = "k1"

(***************************************************************************)
(* Properties of the session monitor                                       *)
(***************************************************************************)
\* C33 as stated: every cached valid session has 60 <= bind_backoff_s <= 600
\* and its next refresh planned bind_backoff_s after its last refresh, or
\* after its registration while it has not been refreshed: the interval is
\* the refresh interval from the start.
C33_AsStated ==
    (mon_entry.present /\ mon_entry.valid) =>
        /\ REFRESH_INTERVAL <= mon_entry.bind_backoff_s
        /\ mon_entry.bind_backoff_s <= MAX_BACKOFF
        /\ mon_entry.next_bind_refresh =
              (IF mon_entry.refreshed_at # None THEN mon_entry.refreshed_at
               ELSE mon_entry.last_check) + mon_entry.bind_backoff_s

\* C33: once the monitor has refreshed a session's binding,
\* 60 <= bind_backoff_s <= 600 and next_bind_refresh is the time of the last
\* refresh plus bind_backoff_s; a refresh that changed the binding sets
\* bind_backoff_s to 60, one that changed nothing doubles it (60 for a
\* session not refreshed before) up to 600.
C33_Backoff ==
    /\ [](mon_entry.present /\ mon_entry.refreshed_at # None =>
            /\ REFRESH_INTERVAL <= mon_entry.bind_backoff_s
            /\ mon_entry.bind_backoff_s <= MAX_BACKOFF
            /\ mon_entry.next_bind_refresh =
                  mon_entry.refreshed_at + mon_entry.bind_backoff_s)
    /\ [][(/\ mon_entry.present /\ mon_entry'.present
           /\ mon_last_run' = mon_now /\ mon_last_run # mon_now
           /\ mon_entry'.refreshed_at = mon_now)
              => mon_entry'.bind_backoff_s =
                    IF mon_entry'.changed THEN REFRESH_INTERVAL
                    ELSE Min(MAX_BACKOFF,
                             2 * (IF mon_entry.refreshed_at = None
                                  THEN REFRESH_INTERVAL
                                  ELSE mon_entry.bind_backoff_s))]_vars

\* Four refreshes that changed nothing: the interval has reached its cap.
C33_Witness ==
    /\ mon_entry.present /\ mon_entry.valid
    /\ mon_entry.refreshed_at # None
    /\ ~mon_entry.changed
    /\ mon_entry.bind_backoff_s = MAX_BACKOFF

\* C34: the monitor removes an entry only when the entry is invalid and
\* became invalid, by a failed check or by invalidate(), not less than 300 s
\* before.
C34_RemovedOnlyLongInvalid ==
    [][(mon_entry.present /\ ~mon_entry'.present)
          => /\ ~mon_entry.valid
             /\ mon_now - mon_entry.invalid_since >= REMOVE_AFTER]_vars

(***************************************************************************)
(* Properties of the functions                                             *)
(***************************************************************************)
\* C22: when the descriptor's start_cmd holds a session id and a transcript
\* of that id exists under the root, then after the refresh the descriptor
\* is bound to that id and to that id's transcript, whatever was stored and
\* whatever the sessions index or newer transcripts say.
C22_StartCmdAuthoritative ==
    (/\ fn_call.fn = "_refresh_claude_log_binding"
     /\ fn_ret # NoRet
     /\ fn_call.arg.start_sid # NoSid
     /\ LogOf[fn_call.arg.start_sid] \in fn_call.arg.exist) =>
        /\ fn_ret.sid = fn_call.arg.start_sid
        /\ fn_ret.path = LogOf[fn_call.arg.start_sid]

\* C26: for a message with none of the shaping hints _postprocess_reply
\* returns the reply as it was given, whatever the reply.
C26_NoHintIdentity ==
    (/\ fn_call.fn = "_postprocess_reply"
     /\ fn_ret.returned
     /\ ~WantsTextFence(fn_call.message)
     /\ ~WantsReleaseNotes(fn_call.message))
        => fn_ret.value = fn_call.reply

\* C27: _convert_box_table_to_markdown applied to its own output returns
\* that output.
C27_ConvertIdempotent ==
    (fn_call.fn = "_convert_box_table_to_markdown" /\ fn_ret.returned)
        => fn_ret.twice = fn_ret.once

\* C35: ensure_pane returns (True, pane) only for a pane is_alive answered
\* True for during the call; it looks at the stored pane, the marker's pane
\* and the respawned target in this order, each at most once, and respawns
\* only on tmux with a start_cmd and a target starting with "%"; it writes
\* the descriptor back only when it returns the marker's pane or the
\* respawned one, with that pane as pane_id.
C35_EnsurePane ==
    (fn_call.fn = "ensure_pane" /\ fn_ret.returned) =>
        LET tried == fn_ret.tried
            Place(x) == CHOOSE i \in 1..3 : <<"stored", "marker", "respawn">>[i] = x
        IN  /\ fn_ret.ok => fn_ret.value \in fn_ret.reported
            /\ \A i, j \in 1..Len(tried) : i < j => Place(tried[i]) < Place(tried[j])
            /\ (Len(tried) > 0 /\ tried[Len(tried)] = "respawn") =>
                  /\ fn_call.terminal = "tmux"
                  /\ fn_call.start_cmd # ""
                  /\ \E p \in {fn_call.pane_id, fn_call.by_marker} :
                        StartsWithPercent(p)
            /\ fn_ret.wrote <=>
                  /\ fn_ret.ok
                  /\ tried[Len(tried)] \in {"marker", "respawn"}
            /\ fn_ret.wrote => fn_ret.written_pane_id = fn_ret.value

\* The stored pane and the marker's pane were dead and the respawn revived
\* the marker's pane.
C35_Witness ==
    /\ fn_call.fn = "ensure_pane" /\ fn_ret.returned
    /\ fn_ret.ok /\ fn_ret.wrote
    /\ fn_ret.tried = <<"stored", "marker", "respawn">>
    /\ fn_ret.value = "%2"

(***************************************************************************)
(* Properties of the injection                                             *)
(***************************************************************************)
\* C36: on every request path the prompt is sent at most once, and not
\* before the cursors are captured; once the path has reached its wait the
\* prompt has been sent exactly once and every byte of the transcript, and
\* on the adapter's path of the pane log, that the prompt caused lies at or
\* after the captured offset.
C36_CursorsBeforeInjection ==
    /\ inj.sent <= 1
    /\ inj.sent = 1 => inj.state # None
    /\ (inj.path # "none" /\ inj.at = Len(InjectSteps(inj.path))) =>
          /\ inj.sent = 1
          /\ \A i \in 1..Len(inj_log) : inj_log[i] = "reply" => i > inj.state
          /\ inj.path = "adapter" =>
                /\ inj.pane_state # None
                /\ \A i \in 1..Len(inj_pane) :
                      inj_pane[i] = "reply" => i > inj.pane_state

\* The adapter's path has sent its prompt with both files already holding
\* a byte, and both have received a byte since.
C36_Witness ==
    /\ inj.path = "adapter" /\ inj.sent = 1
    /\ inj.state = 1 /\ inj.pane_state = 1
    /\ inj_log = <<"old", "reply">>
    /\ inj_pane = <<"old", "reply">>

(***************************************************************************)
(* Properties of the queue under the RPC handlers                          *)
(***************************************************************************)
\* C38: a submitted task is in the queue until the worker takes it, is
\* taken once, has its prompt injected at most once and its result set
\* once; this holds as well for a task whose RPC handler has stopped
\* waiting, which leaves the queue only by being taken from its head; and
\* the deadline of a task is the time its handling began plus timeout_s.
C38_HandledOnce ==
    /\ [](\A t \in QTasks :
            /\ q_tasks[t].injections <= 1
            /\ q_tasks[t].results <= 1
            /\ q_tasks[t].at = "queued" <=> (\E i \in 1..Len(q_queue) : q_queue[i] = t)
            /\ \A i, j \in 1..Len(q_queue) : (q_queue[i] = t /\ q_queue[j] = t) => i = j
            /\ q_tasks[t].at = "handling" =>
                  /\ q_tasks[t].injections = 1 /\ q_tasks[t].results = 0
                  /\ q_tasks[t].deadline = q_tasks[t].started_at + q_tasks[t].timeout_s
            /\ q_tasks[t].at = "done" => q_tasks[t].results = 1)
    /\ [][\A t \in QTasks :
            (q_tasks[t].at = "queued" /\ q_tasks'[t].at # "queued")
               => /\ t = Head(q_queue)
                  /\ q_tasks'[t].started_at = q_now
                  /\ q_tasks'[t].at \in {"handling", "done"}]_vars

\* A task waited in the queue until after its RPC handler had given up, and
\* was then handled: prompt injected, deadline counted from that moment,
\* result set.
C38_Witness ==
    \E t \in QTasks :
        /\ q_tasks[t].rpc = "timed out"
        /\ q_tasks[t].at = "done"
        /\ q_tasks[t].injections = 1
        /\ q_tasks[t].started_at >=
              q_tasks[t].submitted_at + q_tasks[t].timeout_s + QSlackTicks
        /\ q_tasks[t].deadline = q_tasks[t].started_at + q_tasks[t].timeout_s

\* C40: after a call of _refresh_claude_log_binding that returned True the
\* next call, with force_scan true or false and the transcripts, the
\* sessions index and start_cmd as they were, returns False and leaves
\* claude_session_id and claude_session_path as they are.
C40_RefreshConverges ==
    (fn_call.fn = "_refresh_claude_log_binding" /\ fn_ret.returned /\ fn_ret.updated)
        => \A f \in BOOLEAN :
              /\ ~fn_ret.following[f].updated
              /\ fn_ret.following[f].sid = fn_ret.sid
              /\ fn_ret.following[f].path = fn_ret.path

====
